---- MODULE Spec2Model ----
(***************************************************************************)
(* Audit/change-tracking core of the translator admin backend:             *)
(* VocabService, FixitService and AuditService over the SQL repositories.  *)
(*                                                                         *)
(* Go strings are sequences of one-character strings, so that length,      *)
(* character tests and byte-wise ordering are computed and not assumed.    *)
(* A JSON text is a sequence of tokens (the lexical level is abstracted,   *)
(* the syntactic level is not): the empty text is the empty sequence.      *)
(***************************************************************************)
EXTENDS Integers, Sequences, FiniteSets, TLC

(***************************************************************************)
(* Bounds of the model.                                                    *)
(***************************************************************************)
MaxCalls == 2       \* service calls in one sequential run
MaxFaults == 1      \* repository calls that fail in one run
MaxProcs == 2       \* concurrent requests in flight
MaxReqs == 2        \* requests started in one concurrent run

(***************************************************************************)
(* Strings.                                                                *)
(***************************************************************************)
Repeat(c, n) == [i \in 1..n |-> c]

\* the characters the model uses, in byte order
AsciiOrder ==
  << " ", "\"", "'", ".", "/", "0", "1", "2", "3", "4", "5", "6", "7", "8",
     "9", "<", ">", "C", "E", "N", "S", "_", "a", "b", "c", "d", "e", "f",
     "g", "h", "i", "k", "l", "m", "n", "o", "p", "r", "s", "t", "u", "v",
     "w", "x", "y", "{" >>

Ord(c) == CHOOSE i \in 1..Len(AsciiOrder) : AsciiOrder[i] = c

\* Go's s < t on strings: byte-wise lexicographic order
RECURSIVE StrLess(_, _)
StrLess(s, t) ==
  IF t = <<>> THEN FALSE
  ELSE IF s = <<>> THEN TRUE
  ELSE IF Head(s) = Head(t) THEN StrLess(Tail(s), Tail(t))
  ELSE Ord(Head(s)) < Ord(Head(t))

\* strings.ContainsAny(s, chars)
ContainsAny(s, chars) == \E i \in 1..Len(s) : s[i] \in chars

\* regexp ^[a-z]{2}$
langCodePattern(s) ==
  LET LowerCase == { AsciiOrder[i] : i \in Ord("a")..Ord("y") }
  IN  Len(s) = 2 /\ s[1] \in LowerCase /\ s[2] \in LowerCase

(***************************************************************************)
(* Errors: a nil error is NoErr, fmt.Errorf(format, args) keeps the format *)
(* and the arguments.                                                      *)
(***************************************************************************)
NoErr == [code |-> "nil", args |-> <<>>]
Errorf(format, args) == [code |-> format, args |-> args]
IsErr(e) == e.code # "nil"

errFmtStrLen == "%s must be shorter than %d characters"
errFmtStrLangCode == "%s must consist of two lowercase letters"
errInvalidChars == "%s contains invalid characters"
errLearningRequired == "learning lang field is required"

(***************************************************************************)
(* validateFieldContent                                                    *)
(***************************************************************************)
\* the length test with >= in place of >
validateFieldContentOffByOne(fieldValue, fieldName, maxLength) ==
  IF Len(fieldValue) >= maxLength
    THEN Errorf(errFmtStrLen, <<fieldName, maxLength>>)
  ELSE IF ContainsAny(fieldValue, {"<", ">"}) /\ ContainsAny(fieldValue, {"\"", "/"})
    THEN Errorf(errInvalidChars, <<fieldName>>)
  ELSE NoErr

validateFieldContent(fieldValue, fieldName, maxLength) ==
  IF Len(fieldValue) > maxLength
    THEN Errorf(errFmtStrLen, <<fieldName, maxLength>>)
  ELSE IF ContainsAny(fieldValue, {"<", ">"}) /\ ContainsAny(fieldValue, {"\"", "/"})
    THEN Errorf(errInvalidChars, <<fieldName>>)
  ELSE NoErr

\* the first error of a sequence of checks, as a chain of early returns
RECURSIVE FirstErr(_)
FirstErr(errs) ==
  IF errs = <<>> THEN NoErr
  ELSE IF IsErr(Head(errs)) THEN Head(errs)
  ELSE FirstErr(Tail(errs))

maxLearningLangLen == 40
maxFirstLangLen == 40
maxAlternativesLen == 255
maxSkillLen == 100
maxInfinitiveLen == 40
maxPosLen == 40
maxHintLen == 255
maxFixitFieldNameLen == 40
maxFixitCommitLen == 2000
maxAuditCommentsLen == 1000

validateVocabUpdate(vocab) ==
  FirstErr(<< validateFieldContent(vocab.FirstLang, "First language", maxFirstLangLen),
              validateFieldContent(vocab.Alternatives, "Alternatives", maxAlternativesLen),
              validateFieldContent(vocab.Skill, "Skill", maxSkillLen),
              validateFieldContent(vocab.Infinitive, "Infinitive", maxInfinitiveLen),
              validateFieldContent(vocab.Pos, "Part of speech", maxPosLen),
              validateFieldContent(vocab.Hint, "Hint", maxHintLen) >>)

validateVocab(vocab) ==
  FirstErr(<< validateFieldContent(vocab.LearningLang, "Learning language", maxLearningLangLen),
              IF Len(vocab.LearningLang) = 0
                THEN Errorf(errLearningRequired, <<>>) ELSE NoErr,
              validateVocabUpdate(vocab),
              IF ~langCodePattern(vocab.KnownLangCode) \/ ~langCodePattern(vocab.LearningLangCode)
                THEN Errorf(errFmtStrLangCode, <<"Language codes">>) ELSE NoErr >>)

validateFixit(fixit) ==
  FirstErr(<< validateFieldContent(fixit.FieldName, "Field Name", maxFixitFieldNameLen),
              validateFieldContent(fixit.Comments, "Commits", maxFixitCommitLen) >>)

(***************************************************************************)
(* JSON texts and decoded JSON values.                                     *)
(* A token and a decoded value are both [t, v]: t is the kind, v the       *)
(* payload (the characters of a string, <<n>> for a number, the map of an  *)
(* object, the elements of an array).                                      *)
(***************************************************************************)
Tok(t, v) == [t |-> t, v |-> v]
LBrace == Tok("{", <<>>)
RBrace == Tok("}", <<>>)
LBrack == Tok("[", <<>>)
RBrack == Tok("]", <<>>)
JStr(s) == Tok("str", s)
JNum(n) == Tok("num", <<n>>)
JNull == Tok("null", <<>>)
JObj(m) == Tok("obj", m)
JArr(q) == Tok("arr", q)

\* a nil or empty map[string]interface{}
EmptyMap == <<>>

\* the least string of a non-empty set of distinct strings
MinStr(S) == CHOOSE k \in S : \A o \in S \ {k} : StrLess(k, o)

\* encoding/json writes the keys of a map in sorted order
RECURSIVE SortKeys(_)
SortKeys(S) ==
  IF S = {} THEN <<>>
  ELSE LET k == MinStr(S) IN <<k>> \o SortKeys(S \ {k})

RECURSIVE MarshalValue(_)
RECURSIVE MarshalMembers(_, _)
RECURSIVE MarshalElems(_)
\* json.Marshal of a decoded value
MarshalValue(val) ==
  CASE val.t = "obj" -> <<LBrace>> \o MarshalMembers(val.v, SortKeys(DOMAIN val.v)) \o <<RBrace>>
    [] val.t = "arr" -> <<LBrack>> \o MarshalElems(val.v) \o <<RBrack>>
    [] OTHER -> <<val>>
MarshalMembers(m, keys) ==
  IF keys = <<>> THEN <<>>
  ELSE <<JStr(Head(keys))>> \o MarshalValue(m[Head(keys)]) \o MarshalMembers(m, Tail(keys))
MarshalElems(q) ==
  IF q = <<>> THEN <<>> ELSE MarshalValue(Head(q)) \o MarshalElems(Tail(q))

ParseFail == [ok |-> FALSE, val |-> JNull, next |-> 0]
RECURSIVE ParseValue(_, _)
RECURSIVE ParseMembers(_, _, _)
RECURSIVE ParseElems(_, _, _)
\* the JSON decoder: the value that starts at token i, and the index after it
ParseValue(toks, i) ==
  IF i > Len(toks) THEN ParseFail
  ELSE CASE toks[i].t \in {"str", "num", "null"} -> [ok |-> TRUE, val |-> toks[i], next |-> i + 1]
         [] toks[i].t = "{" -> ParseMembers(toks, i + 1, EmptyMap)
         [] toks[i].t = "[" -> ParseElems(toks, i + 1, <<>>)
         [] OTHER -> ParseFail
\* the members of an object: a string key, then a value; a repeated key keeps
\* the last value
ParseMembers(toks, i, acc) ==
  IF i > Len(toks) THEN ParseFail
  ELSE IF toks[i].t = "}" THEN [ok |-> TRUE, val |-> JObj(acc), next |-> i + 1]
  ELSE IF toks[i].t # "str" THEN ParseFail
  ELSE LET r == ParseValue(toks, i + 1) IN
       IF ~r.ok THEN ParseFail
       ELSE ParseMembers(toks, r.next, (toks[i].v :> r.val) @@ acc)
ParseElems(toks, i, acc) ==
  IF i > Len(toks) THEN ParseFail
  ELSE IF toks[i].t = "]" THEN [ok |-> TRUE, val |-> JArr(acc), next |-> i + 1]
  ELSE LET r == ParseValue(toks, i) IN
       IF ~r.ok THEN ParseFail
       ELSE ParseElems(toks, r.next, Append(acc, r.val))

\* a decoder that stops at the end of the first value and ignores the rest
UnmarshalFirstValue(text) ==
  LET r == ParseValue(text, 1) IN
  IF r.ok /\ r.val.t = "obj" THEN r.val.v ELSE EmptyMap

\* json.Unmarshal([]byte(text), &obj) with obj a nil map[string]interface{}:
\* the text is checked as a whole first, and only a JSON object fills the map
Unmarshal(text) ==
  LET r == ParseValue(text, 1) IN
  IF r.ok /\ r.next = Len(text) + 1 /\ r.val.t = "obj" THEN r.val.v ELSE EmptyMap

(***************************************************************************)
(* findDiffs and CompareJSON                                               *)
(***************************************************************************)
Quote(s) == <<"'">> \o s \o <<"'">>

DiffResult(key, before, after) == [Key |-> key, Before |-> before, After |-> after]

\* values of different dynamic types taken as equal
GoNotEqualSameType(aValue, bValue) == aValue.t = bValue.t /\ aValue.v # bValue.v

\* the comparison of the dynamic types alone
GoNotEqualByType(aValue, bValue) == aValue.t # bValue.t

\* aValue != bValue on two interface{} values that are not both slices or
\* both maps: equal only with the same dynamic type and the same value
GoNotEqual(aValue, bValue) == aValue.t # bValue.t \/ aValue.v # bValue.v

\* Comparing two interface{} values that both hold a []interface{} panics at
\* run time (the dynamic type is not comparable).
RECURSIVE findDiffsPanics(_, _)
findDiffsPanics(a, b) ==
  \E key \in DOMAIN a \cap DOMAIN b :
    IF a[key].t = "obj"
      THEN b[key].t = "obj" /\ findDiffsPanics(a[key].v, b[key].v)
      ELSE a[key].t = "arr" /\ b[key].t = "arr"

\* the loop of findDiffs with the branch of a missing top-level key left out
RECURSIVE diffEntriesNoRemoved(_, _, _, _)
diffEntriesNoRemoved(a, b, path, origin) ==
  UNION { LET aValue == a[key]
              fullKey == path \o key
              at == Append(origin, key)
          IN  IF key \notin DOMAIN b
                THEN IF path = <<>>
                       THEN {}
                       ELSE {[origin |-> at,
                              e |-> DiffResult(Quote(fullKey) \o <<" ", "a", "d", "d", "e", "d">>,
                                               JNull, JNull)]}
              ELSE IF aValue.t = "obj"
                THEN IF b[key].t = "obj"
                       THEN diffEntriesNoRemoved(aValue.v, b[key].v, fullKey \o <<".">>, at)
                       ELSE {}
              ELSE IF GoNotEqual(aValue, b[key])
                THEN {[origin |-> at, e |-> DiffResult(Quote(fullKey), aValue, b[key])]}
              ELSE {}
        : key \in DOMAIN a }

\* The entries the loop of findDiffs appends, each with the chain of keys it
\* was found under (two entries can render the same Key).
RECURSIVE diffEntries(_, _, _, _)
diffEntries(a, b, path, origin) ==
  UNION { LET aValue == a[key]
              fullKey == path \o key
              at == Append(origin, key)
          IN  IF key \notin DOMAIN b
                THEN IF path = <<>>
                       THEN {[origin |-> at,
                              e |-> DiffResult(Quote(fullKey) \o <<" ", "r", "e", "m", "o", "v", "e", "d">>,
                                               JNull, JNull)]}
                       ELSE {[origin |-> at,
                              e |-> DiffResult(Quote(fullKey) \o <<" ", "a", "d", "d", "e", "d">>,
                                               JNull, JNull)]}
              ELSE IF aValue.t = "obj"
                THEN IF b[key].t = "obj"
                       THEN diffEntries(aValue.v, b[key].v, fullKey \o <<".">>, at)
                       ELSE {}
              ELSE IF GoNotEqual(aValue, b[key])
                THEN {[origin |-> at, e |-> DiffResult(Quote(fullKey), aValue, b[key])]}
              ELSE {}
        : key \in DOMAIN a }

\* sort.Slice(diffs, Key less): every order of the entries that ascends by
\* Key; entries with equal Keys stay in the order the map iteration produced
\* them, which is any order.
\* the sort left out: the entries in any order
RECURSIVE unsortedOrders(_)
unsortedOrders(S) ==
  IF S = {} THEN {<<>>}
  ELSE UNION { { <<m.e>> \o rest : rest \in unsortedOrders(S \ {m}) } : m \in S }

RECURSIVE sortedOrders(_)
sortedOrders(S) ==
  IF S = {} THEN {<<>>}
  ELSE UNION { { <<m.e>> \o rest : rest \in sortedOrders(S \ {m}) }
               : m \in { x \in S : \A o \in S : ~StrLess(o.e.Key, x.e.Key) } }

\* the lists findDiffs(a, b, "") can return (no panic)
findDiffs(a, b) == sortedOrders(diffEntries(a, b, <<>>, <<>>))

RECURSIVE MarshalDiffList(_)
MarshalDiffList(diffs) ==
  IF diffs = <<>> THEN <<>>
  ELSE <<LBrace, JStr(<<"k", "e", "y">>), JStr(Head(diffs).Key), JStr(<<"b", "e", "f", "o", "r", "e">>)>>
         \o MarshalValue(Head(diffs).Before)
         \o <<JStr(<<"a", "f", "t", "e", "r">>)>> \o MarshalValue(Head(diffs).After) \o <<RBrace>>
         \o MarshalDiffList(Tail(diffs))

\* json.Marshal(diffs): a nil slice is written as null
MarshalDiffs(diffs) ==
  IF diffs = <<>> THEN <<JNull>>
  ELSE <<LBrack>> \o MarshalDiffList(diffs) \o <<RBrack>>

\* CompareJSON(jsonStr1, jsonStr2) panics
CompareJSONPanics(jsonStr1, jsonStr2) ==
  findDiffsPanics(Unmarshal(jsonStr1), Unmarshal(jsonStr2))

\* the strings CompareJSON(jsonStr1, jsonStr2) can return
CompareJSON(jsonStr1, jsonStr2) ==
  { MarshalDiffs(diffs) : diffs \in findDiffs(Unmarshal(jsonStr1), Unmarshal(jsonStr2)) }

(***************************************************************************)
(* Entities (mdl.Vocab, mdl.Fixit, mdl.Audit) and their JSON projection.   *)
(* A time.Time is a natural number, 0 the zero time.                       *)
(***************************************************************************)

Pending == <<"p", "e", "n", "d", "i", "n", "g">>
InProgress == <<"i", "n", "_", "p", "r", "o", "g", "r", "e", "s", "s">>
Completed == <<"c", "o", "m", "p", "l", "e", "t", "e", "d">>
StatusType == {Pending, InProgress, Completed}

\* time.Time.MarshalJSON: a string that differs for different times
RECURSIVE Digits(_)
Digits(n) ==
  IF n < 10 THEN <<AsciiOrder[Ord("0") + n]>>
  ELSE Digits(n \div 10) \o <<AsciiOrder[Ord("0") + (n % 10)]>>
TimeJSON(t) == JStr(<<"t">> \o Digits(t))

Vocab(id, learningLang, firstLang, created, alternatives, skill, infinitive, pos, hint, numLearningWords, knownLangCode, learningLangCode) ==
  [ID |-> id, LearningLang |-> learningLang, FirstLang |-> firstLang,
   Created |-> created, Alternatives |-> alternatives, Skill |-> skill,
   Infinitive |-> infinitive, Pos |-> pos, Hint |-> hint,
   NumLearningWords |-> numLearningWords, KnownLangCode |-> knownLangCode,
   LearningLangCode |-> learningLangCode]

\* Vocab.JSON: the fields in declaration order under their json tags
VocabJSON(o) ==
  << LBrace,
     JStr(<<"i", "d">>), JNum(o.ID),
     JStr(<<"l", "e", "a", "r", "n", "i", "n", "g", "_", "l", "a", "n", "g">>), JStr(o.LearningLang),
     JStr(<<"f", "i", "r", "s", "t", "_", "l", "a", "n", "g">>), JStr(o.FirstLang),
     JStr(<<"c", "r", "e", "a", "t", "e", "d">>), TimeJSON(o.Created),
     JStr(<<"a", "l", "t", "e", "r", "n", "a", "t", "i", "v", "e", "s">>), JStr(o.Alternatives),
     JStr(<<"s", "k", "i", "l", "l">>), JStr(o.Skill),
     JStr(<<"i", "n", "f", "i", "n", "i", "t", "i", "v", "e">>), JStr(o.Infinitive),
     JStr(<<"p", "o", "s">>), JStr(o.Pos),
     JStr(<<"h", "i", "n", "t">>), JStr(o.Hint),
     JStr(<<"n", "u", "m", "_", "l", "e", "a", "r", "n", "i", "n", "g", "_", "w", "o", "r", "d", "s">>), JNum(o.NumLearningWords),
     JStr(<<"k", "n", "o", "w", "n", "_", "l", "a", "n", "g", "_", "c", "o", "d", "e">>), JStr(o.KnownLangCode),
     JStr(<<"l", "e", "a", "r", "n", "i", "n", "g", "_", "l", "a", "n", "g", "_", "c", "o", "d", "e">>), JStr(o.LearningLangCode),
     RBrace >>

\* a clone that leaves Created at its zero value
VocabCloneWithoutCreated(v) ==
  Vocab(v.ID, v.LearningLang, v.FirstLang, 0, v.Alternatives, v.Skill,
        v.Infinitive, v.Pos, v.Hint, v.NumLearningWords, v.KnownLangCode,
        v.LearningLangCode)

\* Vocab.Clone
VocabClone(v) ==
  Vocab(v.ID, v.LearningLang, v.FirstLang, v.Created, v.Alternatives, v.Skill,
        v.Infinitive, v.Pos, v.Hint, v.NumLearningWords, v.KnownLangCode,
        v.LearningLangCode)

Fixit(id, vocabID, status, fieldName, comments, createdBy, created) ==
  [ID |-> id, VocabID |-> vocabID, Status |-> status, FieldName |-> fieldName,
   Comments |-> comments, CreatedBy |-> createdBy, Created |-> created]

\* Fixit.JSON: Status and Comments carry no json tag and keep their Go names
FixitJSON(o) ==
  << LBrace,
     JStr(<<"i", "d">>), JNum(o.ID),
     JStr(<<"v", "o", "c", "a", "b", "_", "i", "d">>), JNum(o.VocabID),
     JStr(<<"S", "t", "a", "t", "u", "s">>), JStr(o.Status),
     JStr(<<"f", "i", "e", "l", "d", "_", "n", "a", "m", "e">>), JStr(o.FieldName),
     JStr(<<"C", "o", "m", "m", "e", "n", "t", "s">>), JStr(o.Comments),
     JStr(<<"c", "r", "e", "a", "t", "e", "d", "_", "b", "y">>), JStr(o.CreatedBy),
     JStr(<<"c", "r", "e", "a", "t", "e", "d">>), TimeJSON(o.Created),
     RBrace >>

\* Fixit.Clone
FixitClone(f) ==
  Fixit(f.ID, f.VocabID, f.Status, f.FieldName, f.Comments, f.CreatedBy, f.Created)

Audit(id, objectID, tableName, diff, before, after, comments, createdBy, created) ==
  [ID |-> id, ObjectID |-> objectID, TableName |-> tableName, Diff |-> diff,
   Before |-> before, After |-> after, Comments |-> comments,
   CreatedBy |-> createdBy, Created |-> created]

(***************************************************************************)
(* The store: the tables behind the SQL repositories.  A world w is        *)
(* [vocabs, vocabSeq, fixits, fixitSeq, audits]: vocabs and fixits map a   *)
(* primary key to its row, the Seq fields are the autoincrement counters,  *)
(* audits is the audit table in insertion order (the id is the position).  *)
(* Every repository call takes fail: GetConnection or the statement fails. *)
(***************************************************************************)
Nil == <<>>
Ptr(x) == <<x>>
Deref(p) == p[1]

errNotConnected == "db not connected"
errConnect == "failed to connect to the db, error: %v"
errFindVocabID == "error finding vocab with id %d: %v"
errFindVocabLL == "error finding vocab with learning lang %s: %v"
errFindFixitID == "error finding Fixit with id %d: %v"
errRecordNotFound == "record not found"
errConstraint == "violates constraint %s"

\* the table without its unique constraint
VocabUniqueDropped(w, row) == TRUE

\* the learning_lang column is declared unique
VocabUnique(w, row) ==
  \A id \in DOMAIN w.vocabs : id # row.ID => w.vocabs[id].LearningLang # row.LearningLang

\* the num_learning_words column is declared check:num_learning_words >= 1
VocabCheck(row) == row.NumLearningWords >= 1

\* the status column has the enum type status_type
FixitStatusValid(row) == row.Status \in StatusType

\* a lookup with db.Find in place of db.First: no error when no row matches
RepoFindVocabByIDNoError(w, id, fail) ==
  IF fail THEN [vocab |-> Nil, err |-> Errorf(errNotConnected, <<>>)]
  ELSE IF id \in DOMAIN w.vocabs THEN [vocab |-> Ptr(w.vocabs[id]), err |-> NoErr]
  ELSE [vocab |-> Nil, err |-> NoErr]

\* SQLVocabRepository.FindVocabByID
RepoFindVocabByID(w, id, fail) ==
  IF fail THEN [vocab |-> Nil, err |-> Errorf(errNotConnected, <<>>)]
  ELSE IF id \in DOMAIN w.vocabs THEN [vocab |-> Ptr(w.vocabs[id]), err |-> NoErr]
  ELSE [vocab |-> Nil, err |-> Errorf(errFindVocabID, <<id, errRecordNotFound>>)]

\* SQLVocabRepository.FindVocabByLearningLang
RepoFindVocabByLearningLang(w, learningLang, fail) ==
  IF fail THEN [vocab |-> Nil, err |-> Errorf(errNotConnected, <<>>)]
  ELSE IF \E id \in DOMAIN w.vocabs : w.vocabs[id].LearningLang = learningLang
    THEN [vocab |-> Ptr(w.vocabs[CHOOSE id \in DOMAIN w.vocabs :
                                   w.vocabs[id].LearningLang = learningLang]),
          err |-> NoErr]
  ELSE [vocab |-> Nil, err |-> Errorf(errFindVocabLL, <<learningLang, errRecordNotFound>>)]

\* the row db.Create writes for a Vocab: a zero field with a default tag takes
\* the default (autoIncrement, default:now(), default:1, default:'en', 'es')
VocabInsertRow(w, vocab, now) ==
  [vocab EXCEPT !.ID = IF @ = 0 THEN w.vocabSeq + 1 ELSE @,
                !.Created = IF @ = 0 THEN now ELSE @,
                !.NumLearningWords = IF @ = 0 THEN 1 ELSE @,
                !.KnownLangCode = IF @ = <<>> THEN <<"e", "n">> ELSE @,
                !.LearningLangCode = IF @ = <<>> THEN <<"e", "s">> ELSE @]

Max(a, b) == IF a >= b THEN a ELSE b

\* SQLVocabRepository.CreateVocab: on success the row is written back into
\* *vocab, on failure *vocab is left as it was
RepoCreateVocab(w, vocab, fail, now) ==
  LET row == VocabInsertRow(w, vocab, now) IN
  IF fail THEN [w |-> w, vocab |-> vocab, err |-> Errorf(errConnect, <<errNotConnected>>)]
  ELSE IF row.ID \in DOMAIN w.vocabs
    THEN [w |-> w, vocab |-> vocab, err |-> Errorf(errConstraint, <<"vocab_pkey">>)]
  ELSE IF ~VocabUnique(w, row)
    THEN [w |-> w, vocab |-> vocab, err |-> Errorf(errConstraint, <<"learning_lang unique">>)]
  ELSE IF ~VocabCheck(row)
    THEN [w |-> w, vocab |-> vocab, err |-> Errorf(errConstraint, <<"num_learning_words check">>)]
  ELSE [w |-> [w EXCEPT !.vocabs = (row.ID :> row) @@ @,
                        !.vocabSeq = Max(@, row.ID)],
        vocab |-> row, err |-> NoErr]

\* SQLVocabRepository.UpdateVocab: db.Save writes every field of the row with
\* this primary key
RepoUpdateVocab(w, vocab, fail) ==
  IF fail THEN [w |-> w, err |-> Errorf(errConnect, <<errNotConnected>>)]
  ELSE IF ~VocabUnique(w, vocab)
    THEN [w |-> w, err |-> Errorf(errConstraint, <<"learning_lang unique">>)]
  ELSE IF ~VocabCheck(vocab)
    THEN [w |-> w, err |-> Errorf(errConstraint, <<"num_learning_words check">>)]
  ELSE [w |-> [w EXCEPT !.vocabs = (vocab.ID :> vocab) @@ @,
                        !.vocabSeq = Max(@, vocab.ID)],
        err |-> NoErr]

\* SQLFixitRepository.FindFixitByID
RepoFindFixitByID(w, id, fail) ==
  IF fail THEN [fixit |-> Nil, err |-> Errorf(errNotConnected, <<>>)]
  ELSE IF id \in DOMAIN w.fixits THEN [fixit |-> Ptr(w.fixits[id]), err |-> NoErr]
  ELSE [fixit |-> Nil, err |-> Errorf(errFindFixitID, <<id, errRecordNotFound>>)]

FixitInsertRow(w, fixit, now) ==
  [fixit EXCEPT !.ID = IF @ = 0 THEN w.fixitSeq + 1 ELSE @,
                !.Created = IF @ = 0 THEN now ELSE @]

\* SQLFixitRepository.CreateFixit
RepoCreateFixit(w, fixit, fail, now) ==
  LET row == FixitInsertRow(w, fixit, now) IN
  IF fail THEN [w |-> w, fixit |-> fixit, err |-> Errorf(errConnect, <<errNotConnected>>)]
  ELSE IF row.ID \in DOMAIN w.fixits
    THEN [w |-> w, fixit |-> fixit, err |-> Errorf(errConstraint, <<"fixit_pkey">>)]
  ELSE IF ~FixitStatusValid(row)
    THEN [w |-> w, fixit |-> fixit, err |-> Errorf(errConstraint, <<"status_type">>)]
  ELSE [w |-> [w EXCEPT !.fixits = (row.ID :> row) @@ @,
                        !.fixitSeq = Max(@, row.ID)],
        fixit |-> row, err |-> NoErr]

\* SQLFixitRepository.UpdateFixit
RepoUpdateFixit(w, fixit, fail) ==
  IF fail THEN [w |-> w, err |-> Errorf(errConnect, <<errNotConnected>>)]
  ELSE IF ~FixitStatusValid(fixit)
    THEN [w |-> w, err |-> Errorf(errConstraint, <<"status_type">>)]
  ELSE [w |-> [w EXCEPT !.fixits = (fixit.ID :> fixit) @@ @,
                        !.fixitSeq = Max(@, fixit.ID)],
        err |-> NoErr]

errFindAuditID == "error finding Audit with id %d: %v"

\* SQLAuditRepository.FindAuditByID
RepoFindAuditByID(w, id, fail) ==
  IF fail THEN [audit |-> Nil, err |-> Errorf(errNotConnected, <<>>)]
  ELSE IF id \in 1..Len(w.audits) THEN [audit |-> Ptr(w.audits[id]), err |-> NoErr]
  ELSE [audit |-> Nil, err |-> Errorf(errFindAuditID, <<id, errRecordNotFound>>)]

\* an insert that carries the id of the latest record: the row with that
\* primary key is written over
RepoCreateAuditOverLatest(w, audit, fail, now) ==
  IF fail THEN [w |-> w, err |-> Errorf(errConnect, <<errNotConnected>>)]
  ELSE IF w.audits = <<>>
    THEN [w |-> [w EXCEPT !.audits = <<[audit EXCEPT !.ID = 1, !.Created = now]>>],
          err |-> NoErr]
  ELSE [w |-> [w EXCEPT !.audits[Len(w.audits)] =
                 [audit EXCEPT !.ID = Len(w.audits), !.Created = now]],
        err |-> NoErr]

\* SQLAuditRepository.CreateAudit: the id and the creation time are assigned
\* by the table (autoIncrement, default:now())
RepoCreateAudit(w, audit, fail, now) ==
  IF fail THEN [w |-> w, err |-> Errorf(errConnect, <<errNotConnected>>)]
  ELSE [w |-> [w EXCEPT !.audits =
                 Append(@, [audit EXCEPT !.ID = Len(w.audits) + 1, !.Created = now])],
        err |-> NoErr]

(***************************************************************************)
(* AuditService.  A service operation yields the set of its outcomes       *)
(* [w, err, panic, failed]: the world it leaves, the error it returns,     *)
(* whether it panicked instead of returning, and which of its repository   *)
(* calls failed.  f = [lookup, write, audit] tells which repository calls  *)
(* fail for a reason outside the program (the connection, the statement).  *)
(***************************************************************************)
NoFail == [lookup |-> FALSE, write |-> FALSE, audit |-> FALSE]
Failed(lookup, write, audit) == [lookup |-> lookup, write |-> write, audit |-> audit]
Outcome(w, err, failed) == [w |-> w, err |-> err, panic |-> FALSE, failed |-> failed]
Panic(w) == [w |-> w, err |-> NoErr, panic |-> TRUE, failed |-> NoFail]
B2N(b) == IF b THEN 1 ELSE 0
NumFailed(failed) == B2N(failed.lookup) + B2N(failed.write) + B2N(failed.audit)

sVocab == "vocab"
sFixit == "fixit"
sSys == <<"s", "y", "s">>
sCreatedVocab == <<"c", "r", "e", "a", "t", "e", "d", " ", "v", "o", "c", "a", "b">>
sUpdatedVocab == <<"u", "p", "d", "a", "t", "e", "d", " ", "v", "o", "c", "a", "b">>
sCreatedFixit == <<"c", "r", "e", "a", "t", "e", "d", " ", "f", "i", "x", "i", "t">>
sUpdatedFixit == <<"u", "p", "d", "a", "t", "e", "d", " ", "f", "i", "x", "i", "t">>

errVocabAfterRequired == "after value for vocab is required"
errFixitAfterRequired == "after value for fixit is required"
errVocabIdMismatch == "audit before id %d and after id %d mismatch"
errFixitIdMismatch == "fixit before id %d and after id %d mismatch"

\* a diff computed for every audit, creation events included
AuditHasBeforeAlways(beforeJson) == TRUE

\* the condition under which CreateAudit computes a diff
AuditHasBefore(beforeJson) == Len(beforeJson) > 0

\* AuditService.CreateAudit
CreateAudit(w, tableName, objectId, comments, createdBy, beforeJson, afterJson, fail, now) ==
  LET verr == validateFieldContent(comments, "comments", maxAuditCommentsLen) IN
  IF IsErr(verr) THEN {Outcome(w, verr, NoFail)}
  ELSE IF AuditHasBefore(beforeJson) /\ CompareJSONPanics(beforeJson, afterJson)
    THEN {Panic(w)}
  ELSE { LET r == RepoCreateAudit(w, Audit(0, objectId, tableName, diff, beforeJson,
                                           afterJson, comments, createdBy, 0), fail, now)
         IN  Outcome(r.w, r.err, Failed(FALSE, FALSE, IsErr(r.err)))
       : diff \in IF AuditHasBefore(beforeJson)
                    THEN CompareJSON(beforeJson, afterJson) ELSE {<<>>} }

\* the identity test with the comparison the wrong way round
AuditIdMismatchInverted(before, after) ==
  before # Nil /\ Deref(before).ID = Deref(after).ID

\* the identity test of the typed audit calls: before != nil &&
\* before.ID != after.ID
AuditIdMismatch(before, after) ==
  before # Nil /\ Deref(before).ID # Deref(after).ID

\* CreateVocabAudit with the nil test of after made only when before is nil
\* too: after.ID is read through a nil pointer and the call panics
CreateVocabAuditNilLate(w, comments, createdBy, before, after, fail, now) ==
  IF after = Nil /\ before = Nil
    THEN {Outcome(w, Errorf(errVocabAfterRequired, <<>>), NoFail)}
  ELSE IF after = Nil THEN {Panic(w)}
  ELSE IF AuditIdMismatch(before, after)
    THEN {Outcome(w, Errorf(errVocabIdMismatch, <<Deref(before).ID, Deref(after).ID>>), NoFail)}
  ELSE CreateAudit(w, sVocab, Deref(after).ID, comments, createdBy,
                   IF before # Nil THEN VocabJSON(Deref(before)) ELSE <<>>,
                   VocabJSON(Deref(after)), fail, now)

\* AuditService.CreateVocabAudit; before and after are pointers
CreateVocabAudit(w, comments, createdBy, before, after, fail, now) ==
  IF after = Nil THEN {Outcome(w, Errorf(errVocabAfterRequired, <<>>), NoFail)}
  ELSE IF AuditIdMismatch(before, after)
    THEN {Outcome(w, Errorf(errVocabIdMismatch, <<Deref(before).ID, Deref(after).ID>>), NoFail)}
  ELSE CreateAudit(w, sVocab, Deref(after).ID, comments, createdBy,
                   IF before # Nil THEN VocabJSON(Deref(before)) ELSE <<>>,
                   VocabJSON(Deref(after)), fail, now)

\* CreateFixitAudit as a copy of CreateVocabAudit that kept its table name
CreateFixitAuditAsVocab(w, comments, createdBy, before, after, fail, now) ==
  IF after = Nil THEN {Outcome(w, Errorf(errFixitAfterRequired, <<>>), NoFail)}
  ELSE IF AuditIdMismatch(before, after)
    THEN {Outcome(w, Errorf(errFixitIdMismatch, <<Deref(before).ID, Deref(after).ID>>), NoFail)}
  ELSE CreateAudit(w, sVocab, Deref(after).ID, comments, createdBy,
                   IF before # Nil THEN FixitJSON(Deref(before)) ELSE <<>>,
                   FixitJSON(Deref(after)), fail, now)

\* AuditService.CreateFixitAudit
CreateFixitAudit(w, comments, createdBy, before, after, fail, now) ==
  IF after = Nil THEN {Outcome(w, Errorf(errFixitAfterRequired, <<>>), NoFail)}
  ELSE IF AuditIdMismatch(before, after)
    THEN {Outcome(w, Errorf(errFixitIdMismatch, <<Deref(before).ID, Deref(after).ID>>), NoFail)}
  ELSE CreateAudit(w, sFixit, Deref(after).ID, comments, createdBy,
                   IF before # Nil THEN FixitJSON(Deref(before)) ELSE <<>>,
                   FixitJSON(Deref(after)), fail, now)

(***************************************************************************)
(* VocabService                                                            *)
(***************************************************************************)
errVocabExists == "vocab with learning lang %s and id %d already exists"
errVocabExpected == "expected to find existing vocab with id %d"
errVocabNoChanges == "update for vocab %d has no changes"
errFixitExpected == "expected to find existing fixit with id %d"
errFixitNoChanges == "update for fixit %d has no changes"

\* the audit step with its error dropped: the call reports success
AfterAuditIgnored(o, lookup, write) ==
  [o EXCEPT !.err = NoErr, !.failed.lookup = lookup, !.failed.write = write]

\* the outcome of the audit step, with the failures of the earlier steps
After(o, lookup, write) == [o EXCEPT !.failed.lookup = lookup, !.failed.write = write]

\* a slip in the existence test: the error tested the wrong way round
VocabExistsInverted(existing) == IsErr(existing.err) /\ existing.vocab # Nil

\* the existence test of CreateVocab: err == nil && existing != nil
VocabExists(existing) == ~IsErr(existing.err) /\ existing.vocab # Nil

\* VocabService.CreateVocab
CreateVocab(w, vocab, f, now) ==
  LET verr == validateVocab(vocab)
      existing == RepoFindVocabByLearningLang(w, vocab.LearningLang, f.lookup)
      created == RepoCreateVocab(w, vocab, f.write, now)
  IN  IF IsErr(verr) THEN {Outcome(w, verr, NoFail)}
      ELSE IF VocabExists(existing)
        THEN {Outcome(w, Errorf(errVocabExists,
                                <<vocab.LearningLang, Deref(existing.vocab).ID>>),
                      Failed(f.lookup, FALSE, FALSE))}
      \* the error of repo.CreateVocab is overwritten by the next assignment
      ELSE { After(o, f.lookup, IsErr(created.err))
             : o \in CreateVocabAudit(created.w, sCreatedVocab, sSys, Nil,
                                      Ptr(created.vocab), f.audit, now) }

\* the test extended to a field that an update may not change
VocabChangedWithLearningLang(vocab, updating) ==
  \/ vocab.Hint # updating.Hint
  \/ vocab.Pos # updating.Pos
  \/ vocab.Skill # updating.Skill
  \/ vocab.FirstLang # updating.FirstLang
  \/ vocab.Infinitive # updating.Infinitive
  \/ vocab.Alternatives # updating.Alternatives
  \/ vocab.NumLearningWords # updating.NumLearningWords
  \/ vocab.LearningLang # updating.LearningLang

\* the test of UpdateVocab on the fields an update may change
VocabChanged(vocab, updating) ==
  \/ vocab.Hint # updating.Hint
  \/ vocab.Pos # updating.Pos
  \/ vocab.Skill # updating.Skill
  \/ vocab.FirstLang # updating.FirstLang
  \/ vocab.Infinitive # updating.Infinitive
  \/ vocab.Alternatives # updating.Alternatives
  \/ vocab.NumLearningWords # updating.NumLearningWords

\* the assignments extended to the learning language
VocabApplyWithLearningLang(vocab, updating) ==
  [vocab EXCEPT !.Hint = updating.Hint,
                !.Pos = updating.Pos,
                !.Skill = updating.Skill,
                !.FirstLang = updating.FirstLang,
                !.Infinitive = updating.Infinitive,
                !.Alternatives = updating.Alternatives,
                !.NumLearningWords = updating.NumLearningWords,
                !.LearningLang = updating.LearningLang]

\* the assignments of UpdateVocab to the clone
VocabApply(vocab, updating) ==
  [vocab EXCEPT !.Hint = updating.Hint,
                !.Pos = updating.Pos,
                !.Skill = updating.Skill,
                !.FirstLang = updating.FirstLang,
                !.Infinitive = updating.Infinitive,
                !.Alternatives = updating.Alternatives,
                !.NumLearningWords = updating.NumLearningWords]

\* VocabService.UpdateVocab
UpdateVocab(w, updating, f, now) ==
  LET verr == validateVocabUpdate(updating)
      found == RepoFindVocabByID(w, updating.ID, f.lookup)
      before == found.vocab
      vocab == VocabApply(VocabClone(Deref(before)), updating)
      saved == RepoUpdateVocab(w, vocab, f.write)
  IN  IF IsErr(verr) THEN {Outcome(w, verr, NoFail)}
      ELSE IF IsErr(found.err) THEN {Outcome(w, found.err, Failed(f.lookup, FALSE, FALSE))}
      ELSE IF before = Nil
        THEN {Outcome(w, Errorf(errVocabExpected, <<updating.ID>>), Failed(f.lookup, FALSE, FALSE))}
      ELSE IF ~VocabChanged(VocabClone(Deref(before)), updating)
        THEN {Outcome(w, Errorf(errVocabNoChanges, <<Deref(before).ID>>), Failed(f.lookup, FALSE, FALSE))}
      ELSE IF IsErr(saved.err) THEN {Outcome(w, saved.err, Failed(f.lookup, TRUE, FALSE))}
      ELSE { After(o, f.lookup, FALSE)
             : o \in CreateVocabAudit(saved.w, sUpdatedVocab, sSys, before,
                                      Ptr(vocab), f.audit, now) }

(***************************************************************************)
(* FixitService                                                            *)
(***************************************************************************)
\* CreateFixit that validates after the insert
CreateFixitValidateLate(w, fixit, f, now) ==
  LET verr == validateFixit(fixit)
      created == RepoCreateFixit(w, fixit, f.write, now)
  IN  IF IsErr(verr) THEN {Outcome(created.w, verr, Failed(FALSE, IsErr(created.err), FALSE))}
      ELSE { After(o, FALSE, IsErr(created.err))
             : o \in CreateFixitAudit(created.w, sCreatedFixit, sSys, Nil,
                                      Ptr(created.fixit), f.audit, now) }

\* FixitService.CreateFixit
CreateFixit(w, fixit, f, now) ==
  LET verr == validateFixit(fixit)
      created == RepoCreateFixit(w, fixit, f.write, now)
  IN  IF IsErr(verr) THEN {Outcome(w, verr, NoFail)}
      \* the error of repo.CreateFixit is overwritten by the next assignment
      ELSE { After(o, FALSE, IsErr(created.err))
             : o \in CreateFixitAudit(created.w, sCreatedFixit, sSys, Nil,
                                      Ptr(created.fixit), f.audit, now) }

\* the test of UpdateFixit on the fields an update may change
FixitChanged(fixit, updating) ==
  \/ fixit.Status # updating.Status
  \/ fixit.FieldName # updating.FieldName
  \/ fixit.Comments # updating.Comments

\* the assignments of UpdateFixit to the clone
FixitApply(fixit, updating) ==
  [fixit EXCEPT !.Status = updating.Status,
                !.FieldName = updating.FieldName,
                !.Comments = updating.Comments]

\* FixitService.UpdateFixit
UpdateFixit(w, updating, f, now) ==
  LET verr == validateFixit(updating)
      found == RepoFindFixitByID(w, updating.ID, f.lookup)
      before == found.fixit
      fixit == FixitApply(FixitClone(Deref(before)), updating)
      saved == RepoUpdateFixit(w, fixit, f.write)
  IN  IF IsErr(verr) THEN {Outcome(w, verr, NoFail)}
      ELSE IF IsErr(found.err) THEN {Outcome(w, found.err, Failed(f.lookup, FALSE, FALSE))}
      ELSE IF before = Nil
        THEN {Outcome(w, Errorf(errFixitExpected, <<updating.ID>>), Failed(f.lookup, FALSE, FALSE))}
      ELSE IF ~FixitChanged(FixitClone(Deref(before)), updating)
        THEN {Outcome(w, Errorf(errFixitNoChanges, <<Deref(before).ID>>), Failed(f.lookup, FALSE, FALSE))}
      ELSE IF IsErr(saved.err) THEN {Outcome(w, saved.err, Failed(f.lookup, TRUE, FALSE))}
      ELSE { After(o, f.lookup, FALSE)
             : o \in CreateFixitAudit(saved.w, sUpdatedFixit, sSys, before,
                                      Ptr(fixit), f.audit, now) }

(***************************************************************************)
(* State.                                                                  *)
(***************************************************************************)
VARIABLES
  vocabs,     \* the vocab table: primary key -> row
  vocabSeq,   \* its autoincrement counter
  fixits,     \* the fixit table
  fixitSeq,
  audits,     \* the audit table, in insertion order
  now,        \* the clock: the number of requests received
  faults,     \* the number of repository calls that have failed
  ret,        \* the last call that returned: operation, input, result
  procs       \* the requests in flight (concurrent runs)

vars == <<vocabs, vocabSeq, fixits, fixitSeq, audits, now, faults, ret, procs>>

World == [vocabs |-> vocabs, vocabSeq |-> vocabSeq, fixits |-> fixits,
          fixitSeq |-> fixitSeq, audits |-> audits]

SetWorld(w) ==
  /\ vocabs' = w.vocabs
  /\ vocabSeq' = w.vocabSeq
  /\ fixits' = w.fixits
  /\ fixitSeq' = w.fixitSeq
  /\ audits' = w.audits

NoRet == [op |-> "none", in |-> <<>>, err |-> NoErr, panic |-> FALSE, failed |-> NoFail]

\* the database is empty and no request was received
Init ==
  /\ vocabs = <<>>
  /\ vocabSeq = 0
  /\ fixits = <<>>
  /\ fixitSeq = 0
  /\ audits = <<>>
  /\ now = 0
  /\ faults = 0
  /\ ret = NoRet
  /\ procs = <<>>

(***************************************************************************)
(* Inputs of the service calls.                                            *)
(***************************************************************************)
sEmpty == <<>>
sX == <<"x">>
TooLong(maxLength) == Repeat("x", maxLength + 1)
sInjection == <<"<", "/", ">">>

\* which repository calls of a request fail: at most MaxFaults in a run
FaultChoices ==
  { f \in [lookup : BOOLEAN, write : BOOLEAN, audit : BOOLEAN] :
      faults + NumFailed(f) <= MaxFaults }

\* a NewVocab as the resolver hands it over: no id, no creation time
NewVocab(learningLang) ==
  Vocab(0, learningLang, <<"f">>, 0, sEmpty, sEmpty, sEmpty, sEmpty, sEmpty, 1, <<"e", "n">>, <<"e", "s">>)

VocabStringFields == {"FirstLang", "Alternatives", "Skill", "Infinitive", "Pos", "Hint"}
VocabMutableFields == VocabStringFields \cup {"NumLearningWords"}
VocabMax ==
  [FirstLang |-> maxFirstLangLen, Alternatives |-> maxAlternativesLen,
   Skill |-> maxSkillLen, Infinitive |-> maxInfinitiveLen, Pos |-> maxPosLen,
   Hint |-> maxHintLen]

\* the inputs of CreateVocab
CreateVocabInputs ==
  LET base == NewVocab(<<"a">>) IN
  { base, NewVocab(<<"b">>),
    [base EXCEPT !.NumLearningWords = 0],
    [base EXCEPT !.NumLearningWords = -1],
    [base EXCEPT !.LearningLang = sEmpty],
    [base EXCEPT !.LearningLang = TooLong(maxLearningLangLen)],
    [base EXCEPT !.LearningLang = sInjection],
    [base EXCEPT !.KnownLangCode = <<"E", "N">>],
    [base EXCEPT !.LearningLangCode = <<"e">>] }
  \cup { [base EXCEPT ![fld] = TooLong(VocabMax[fld])] : fld \in VocabStringFields }
  \cup { [base EXCEPT ![fld] = sInjection] : fld \in {"Hint"} }

\* another valid value of a field an update may change
Toggle(fld, val) ==
  IF fld = "NumLearningWords" THEN (IF val = 1 THEN 2 ELSE 1)
  ELSE IF val = sEmpty THEN sX ELSE sEmpty

ToggleAll(rec, flds) == [k \in DOMAIN rec |-> IF k \in flds THEN Toggle(k, rec[k]) ELSE rec[k]]

\* the identity fields of an incoming update: as the resolver fills them
\* (zero values) or with values of their own
VocabIdentity(rec, own) ==
  IF own THEN [rec EXCEPT !.LearningLang = <<"y">>, !.Created = 9,
                          !.KnownLangCode = <<"d", "e">>, !.LearningLangCode = <<"i", "t">>]
  ELSE [rec EXCEPT !.LearningLang = sEmpty, !.Created = 0,
                   !.KnownLangCode = sEmpty, !.LearningLangCode = sEmpty]

\* the inputs of UpdateVocab for one id: the stored values (or those of a new
\* vocab when nothing is stored) with no, one or all mutable fields changed,
\* or with one field that fails validation or the check of the table, or
\* with a changed first_lang, the language codes and no learning_lang
UpdateVocabInputs(id) ==
  LET stored == IF id \in DOMAIN vocabs THEN vocabs[id]
                ELSE [NewVocab(<<"a">>) EXCEPT !.ID = id]
      valid == { stored, ToggleAll(stored, VocabMutableFields),
                 [stored EXCEPT !.NumLearningWords = 0] }
               \cup { ToggleAll(stored, {fld}) : fld \in VocabMutableFields }
      invalid == { [stored EXCEPT ![fld] = TooLong(VocabMax[fld])] : fld \in VocabStringFields }
                 \cup { [stored EXCEPT !.Pos = sInjection] }
  IN  { VocabIdentity(rec, own) : rec \in valid, own \in BOOLEAN }
      \cup { VocabIdentity(rec, FALSE) : rec \in invalid }
      \cup { [ToggleAll(stored, {"FirstLang"}) EXCEPT !.LearningLang = sEmpty] }

\* a NewFixit as the resolver hands it over
NewFixit(status) == Fixit(0, 1, status, <<"f">>, <<"c">>, sEmpty, 0)

\* the inputs of CreateFixit
CreateFixitInputs ==
  LET base == NewFixit(Pending) IN
  { base,
    [base EXCEPT !.Status = sEmpty],
    [base EXCEPT !.FieldName = TooLong(maxFixitFieldNameLen)],
    [base EXCEPT !.Comments = TooLong(maxFixitCommitLen)],
    [base EXCEPT !.Comments = sInjection] }

NextStatus(status) ==
  IF status = Pending THEN InProgress
  ELSE IF status = InProgress THEN Completed ELSE Pending

FixitIdentity(rec, own) ==
  IF own THEN [rec EXCEPT !.VocabID = 7, !.CreatedBy = <<"u">>, !.Created = 9]
  ELSE [rec EXCEPT !.VocabID = 0, !.CreatedBy = sEmpty, !.Created = 0]

\* the inputs of UpdateFixit for one id
UpdateFixitInputs(id) ==
  LET stored == IF id \in DOMAIN fixits THEN fixits[id]
                ELSE [NewFixit(Pending) EXCEPT !.ID = id]
      valid == { stored,
                 [stored EXCEPT !.Status = NextStatus(@)],
                 [stored EXCEPT !.FieldName = Toggle("FieldName", @)],
                 [stored EXCEPT !.Comments = Toggle("Comments", @)],
                 [stored EXCEPT !.Status = NextStatus(@),
                                !.FieldName = Toggle("FieldName", @),
                                !.Comments = Toggle("Comments", @)] }
      invalid == { [stored EXCEPT !.FieldName = TooLong(maxFixitFieldNameLen)],
                   [stored EXCEPT !.Comments = TooLong(maxFixitCommitLen)] }
  IN  { FixitIdentity(rec, own) : rec \in valid, own \in BOOLEAN }
      \cup { FixitIdentity(rec, FALSE) : rec \in invalid }

(***************************************************************************)
(* The service calls, one request at a time.                               *)
(***************************************************************************)
\* a call returns (or panics): the world, the clock and the record of the call
Return(op, in, o) ==
  /\ SetWorld(o.w)
  /\ now' = now + 1
  /\ faults' = faults + NumFailed(o.failed)
  /\ ret' = [op |-> op, in |-> in, err |-> o.err, panic |-> o.panic, failed |-> o.failed]
  /\ UNCHANGED procs

CallCreateVocab ==
  /\ now < MaxCalls
  /\ \E vocab \in CreateVocabInputs, f \in FaultChoices :
       \E o \in CreateVocab(World, vocab, f, now + 1) :
         Return("CreateVocab", vocab, o)

CallUpdateVocab ==
  /\ now < MaxCalls
  /\ \E id \in 1..(vocabSeq + 1), f \in FaultChoices :
       \E updating \in UpdateVocabInputs(id) :
         \E o \in UpdateVocab(World, updating, f, now + 1) :
           Return("UpdateVocab", updating, o)

CallCreateFixit ==
  /\ now < MaxCalls
  /\ \E fixit \in CreateFixitInputs, f \in FaultChoices :
       /\ ~f.lookup
       /\ \E o \in CreateFixit(World, fixit, f, now + 1) :
            Return("CreateFixit", fixit, o)

CallUpdateFixit ==
  /\ now < MaxCalls
  /\ \E id \in 1..(fixitSeq + 1), f \in FaultChoices :
       \E updating \in UpdateFixitInputs(id) :
         \E o \in UpdateFixit(World, updating, f, now + 1) :
           Return("UpdateFixit", updating, o)

Next ==
  \/ CallCreateVocab
  \/ CallUpdateVocab
  \/ CallCreateFixit
  \/ CallUpdateFixit

Spec == Init /\ [][Next]_vars

(***************************************************************************)
(* Properties of the service calls made one at a time (Spec).              *)
(* In Spec every step is one call: the unprimed variables are the state    *)
(* before the call, the primed ones the state after it, ret' the call.     *)
(***************************************************************************)
RetOK(r) == ~IsErr(r.err) /\ ~r.panic
VocabOps == {"CreateVocab", "UpdateVocab"}
FixitOps == {"CreateFixit", "UpdateFixit"}
EntityTable(op) == IF op \in VocabOps THEN sVocab ELSE sFixit

\* the primary keys whose row in the table is new or different after the step
ChangedVocabs == { id \in DOMAIN vocabs' : id \notin DOMAIN vocabs \/ vocabs'[id] # vocabs[id] }
ChangedFixits == { id \in DOMAIN fixits' : id \notin DOMAIN fixits \/ fixits'[id] # fixits[id] }
ChangedRows(op) == IF op \in VocabOps THEN ChangedVocabs ELSE ChangedFixits
OtherRows(op) == IF op \in VocabOps THEN ChangedFixits ELSE ChangedVocabs

StoreUnchanged ==
  /\ vocabs' = vocabs /\ vocabSeq' = vocabSeq
  /\ fixits' = fixits /\ fixitSeq' = fixitSeq
AuditsUnchanged == audits' = audits

\* the step appended exactly one audit record and touched no other
AppendedOne == Len(audits') = Len(audits) + 1 /\ SubSeq(audits', 1, Len(audits)) = audits
LastAudit == audits'[Len(audits')]

ValidationErrors == {errFmtStrLen, errInvalidChars, errLearningRequired, errFmtStrLangCode}
IsValidationErr(e) == e.code \in ValidationErrors

\* C1: in a run in which no repository call has failed, a call that returns
\* without error has appended exactly one audit record, whose table_name is
\* the entity type and whose object_id is the id of the one row the call
\* wrote, and a call that returns an error has appended no audit record.
C1_OneAuditPerCall ==
  [][ faults' = 0 =>
        IF RetOK(ret')
          THEN /\ AppendedOne
               /\ LastAudit.TableName = EntityTable(ret'.op)
               /\ ChangedRows(ret'.op) = {LastAudit.ObjectID}
               /\ OtherRows(ret'.op) = {}
          ELSE AuditsUnchanged ]_vars

\* a fault-free run in which a fixit was created and then updated, the update
\* audited under the fixit's table name and id
C1_Witness ==
  /\ faults = 0
  /\ ret.op = "UpdateFixit" /\ RetOK(ret)
  /\ Len(audits) = 2
  /\ audits[2].TableName = sFixit
  /\ audits[2].ObjectID = ret.in.ID
  /\ audits[2].Before # <<>>

\* the mutable fields of an incoming vocab equal those of a stored row
SameVocabFields(updating, row) == \A fld \in VocabMutableFields : updating[fld] = row[fld]
SameFixitFields(updating, row) ==
  /\ updating.Status = row.Status
  /\ updating.FieldName = row.FieldName
  /\ updating.Comments = row.Comments

\* C2: an UpdateVocab (UpdateFixit) whose incoming mutable fields all equal
\* the stored row's values, the row having been loaded, returns the
\* 'has no changes' error and leaves the tables and the audit log unchanged.
C2_NoChangeRejected ==
  [][ /\ ( /\ ret'.op = "UpdateVocab"
           /\ ~ret'.failed.lookup
           /\ ret'.in.ID \in DOMAIN vocabs
           /\ SameVocabFields(ret'.in, vocabs[ret'.in.ID]) )
         => /\ ret'.err = Errorf(errVocabNoChanges, <<ret'.in.ID>>)
            /\ StoreUnchanged /\ AuditsUnchanged
      /\ ( /\ ret'.op = "UpdateFixit"
           /\ ~ret'.failed.lookup
           /\ ret'.in.ID \in DOMAIN fixits
           /\ SameFixitFields(ret'.in, fixits[ret'.in.ID]) )
         => /\ ret'.err = Errorf(errFixitNoChanges, <<ret'.in.ID>>)
            /\ StoreUnchanged /\ AuditsUnchanged ]_vars

\* an update of a stored vocab with nothing to change was rejected, the
\* incoming identity fields differing from the stored ones
C2_Witness ==
  /\ ret.op = "UpdateVocab"
  /\ ret.err.code = errVocabNoChanges
  /\ ret.in.ID \in DOMAIN vocabs
  /\ SameVocabFields(ret.in, vocabs[ret.in.ID])
  /\ ret.in.LearningLang # vocabs[ret.in.ID].LearningLang

\* the stored rows with a given learning_lang
RowsWithLearningLang(learningLang) ==
  { id \in DOMAIN vocabs : vocabs[id].LearningLang = learningLang }

\* C3: a CreateVocab of a valid vocab whose learning_lang is that of a stored
\* row, the existence lookup having been answered, fails with 'vocab with
\* learning lang <text> and id <existing id> already exists' naming that
\* row's id, and neither inserts a row nor appends an audit record.
C3_DuplicateRejected ==
  [][ ( /\ ret'.op = "CreateVocab"
        /\ ~IsErr(validateVocab(ret'.in))
        /\ ~ret'.failed.lookup
        /\ RowsWithLearningLang(ret'.in.LearningLang) # {} )
      => /\ \E id \in RowsWithLearningLang(ret'.in.LearningLang) :
              ret'.err = Errorf(errVocabExists, <<ret'.in.LearningLang, id>>)
         /\ StoreUnchanged /\ AuditsUnchanged ]_vars

\* a second vocab with a learning_lang of the first was refused
C3_Witness ==
  /\ ret.op = "CreateVocab"
  /\ ret.err.code = errVocabExists
  /\ ret.err.args[2] \in RowsWithLearningLang(ret.in.LearningLang)
  /\ Cardinality(DOMAIN vocabs) = 1

\* C5: an UpdateVocab or UpdateFixit for an id that has no stored row writes
\* nothing to the tables or to the audit log and fails; the error is the
\* repository's not-found error when the input passed validation and the
\* lookup was answered.
C5_UpdateNotFound ==
  [][ /\ (ret'.op = "UpdateVocab" /\ ret'.in.ID \notin DOMAIN vocabs)
         => /\ StoreUnchanged /\ AuditsUnchanged
            /\ IsErr(ret'.err)
            /\ (~IsErr(validateVocabUpdate(ret'.in)) /\ ~ret'.failed.lookup)
                 => ret'.err = Errorf(errFindVocabID, <<ret'.in.ID, errRecordNotFound>>)
      /\ (ret'.op = "UpdateFixit" /\ ret'.in.ID \notin DOMAIN fixits)
         => /\ StoreUnchanged /\ AuditsUnchanged
            /\ IsErr(ret'.err)
            /\ (~IsErr(validateFixit(ret'.in)) /\ ~ret'.failed.lookup)
                 => ret'.err = Errorf(errFindFixitID, <<ret'.in.ID, errRecordNotFound>>) ]_vars

\* an update of a vocab that does not exist, beside one that does, got the
\* not-found error
C5_Witness ==
  /\ ret.op = "UpdateVocab"
  /\ ret.err.code = errFindVocabID
  /\ ret.in.ID \notin DOMAIN vocabs
  /\ DOMAIN vocabs # {}

StorageErrors == {errConnect, errConstraint}

\* C6: when the repository insert fails inside CreateVocab or CreateFixit,
\* the call returns that storage error to its caller.
C6_InsertErrorReturned ==
  (ret.op \in {"CreateVocab", "CreateFixit"} /\ ret.failed.write)
    => ret.err.code \in StorageErrors

\* C7: when the audit write fails after the entity write of a create or an
\* update has succeeded, the call returns the audit error and the table keeps
\* the row as newly written: exactly that row differs from the state before.
C7_AuditFailureKeepsWrite ==
  [][ (ret'.op \in VocabOps \cup FixitOps /\ ret'.failed.audit /\ ~ret'.failed.write)
      => /\ ret'.err = Errorf(errConnect, <<errNotConnected>>)
         /\ AuditsUnchanged
         /\ Cardinality(ChangedRows(ret'.op)) = 1
         /\ OtherRows(ret'.op) = {}
         /\ ret'.op = "UpdateVocab" =>
              /\ ChangedVocabs = {ret'.in.ID}
              /\ SameVocabFields(ret'.in, vocabs'[ret'.in.ID])
         /\ ret'.op = "UpdateFixit" =>
              /\ ChangedFixits = {ret'.in.ID}
              /\ SameFixitFields(ret'.in, fixits'[ret'.in.ID])
         /\ ret'.op = "CreateVocab" =>
              \A id \in ChangedVocabs : /\ id \notin DOMAIN vocabs
                                        /\ vocabs'[id].LearningLang = ret'.in.LearningLang
         /\ ret'.op = "CreateFixit" =>
              \A id \in ChangedFixits : /\ id \notin DOMAIN fixits
                                        /\ fixits'[id].FieldName = ret'.in.FieldName ]_vars

\* 'entity saved, audit failed': an updated vocab is stored, the call
\* returned the error of the audit write and the update has no audit record
C7_Witness ==
  /\ ret.op = "UpdateVocab"
  /\ ret.failed.audit /\ ~ret.failed.write
  /\ IsErr(ret.err)
  /\ ret.in.ID \in DOMAIN vocabs
  /\ SameVocabFields(ret.in, vocabs[ret.in.ID])
  /\ \A i \in 1..Len(audits) : audits[i].Before = <<>>

\* C8: a call that returns a field-validation error (length, characters,
\* required field, language-code format) leaves the tables and the audit log
\* exactly as they were before the call.
C8_ValidationBeforeWrites ==
  [][ (ret'.op \in VocabOps \cup FixitOps /\ IsValidationErr(ret'.err))
      => StoreUnchanged /\ AuditsUnchanged ]_vars

\* a create of a fixit was refused for the length of a field, a row being stored
C8_Witness ==
  /\ ret.op = "CreateFixit"
  /\ IsValidationErr(ret.err)
  /\ ret.err.code = errFmtStrLen
  /\ DOMAIN vocabs # {}

VocabIdentityFields == {"ID", "LearningLang", "Created", "KnownLangCode", "LearningLangCode"}
FixitIdentityFields == {"ID", "VocabID", "CreatedBy", "Created"}
FixitMutableFields == {"Status", "FieldName", "Comments"}

\* C9: a successful UpdateVocab leaves id, learning_lang, created and the two
\* language codes of the stored row as they were, whatever the incoming
\* values, and a successful UpdateFixit leaves id, vocab_id, created_by and
\* created; the mutable fields, and only they, take the incoming values, and
\* no other row changes.
C9_UpdateFrame ==
  [][ /\ (ret'.op = "UpdateVocab" /\ RetOK(ret'))
         => LET id == ret'.in.ID IN
            /\ id \in DOMAIN vocabs /\ ChangedVocabs = {id} /\ ChangedFixits = {}
            /\ \A fld \in VocabIdentityFields : vocabs'[id][fld] = vocabs[id][fld]
            /\ \A fld \in VocabMutableFields : vocabs'[id][fld] = ret'.in[fld]
      /\ (ret'.op = "UpdateFixit" /\ RetOK(ret'))
         => LET id == ret'.in.ID IN
            /\ id \in DOMAIN fixits /\ ChangedFixits = {id} /\ ChangedVocabs = {}
            /\ \A fld \in FixitIdentityFields : fixits'[id][fld] = fixits[id][fld]
            /\ \A fld \in FixitMutableFields : fixits'[id][fld] = ret'.in[fld] ]_vars

\* a vocab was updated by an input whose identity fields all differ from the
\* stored ones
C9_Witness ==
  /\ ret.op = "UpdateVocab" /\ RetOK(ret)
  /\ ret.in.ID \in DOMAIN vocabs
  /\ \A fld \in VocabIdentityFields \ {"ID"} : ret.in[fld] # vocabs[ret.in.ID][fld]
  /\ SameVocabFields(ret.in, vocabs[ret.in.ID])
  /\ Len(audits) = 2

(***************************************************************************)
(* The audit service called directly (SpecAudit).                          *)
(***************************************************************************)
MaxAudits == 2      \* calls of the audit service in one run

kA == <<"a">>
kB == <<"b">>

\* JSON texts handed to CreateAudit as before: none, objects (flat, nested,
\* with an array), a text that is cut short and a text that is no object
AuditTexts ==
  { <<>>,
    <<LBrace, JStr(kA), JNum(1), RBrace>>,
    <<LBrace, JStr(kA), JNum(2), JStr(kB), JStr(sX), RBrace>>,
    <<LBrace, JStr(kA), LBrace, JStr(kB), JNum(1), RBrace, RBrace>>,
    <<LBrace, JStr(kA), LBrack, JNum(1), RBrack, RBrace>>,
    <<LBrace, JStr(kA)>>,
    <<JNum(1)>> }

\* JSON texts handed to CreateAudit as after
AuditAfterTexts ==
  { <<LBrace, JStr(kA), JNum(1), RBrace>>,
    <<LBrace, JStr(kA), LBrace, RBrace, JStr(kB), JNum(1), RBrace>>,
    <<LBrace, JStr(kA), LBrack, JNum(2), RBrack, RBrace>>,
    <<LBrace, JStr(kA)>> }

\* whether the repository call of an audit fails: at most MaxFaults in a run
AuditFaultChoices == {fail \in BOOLEAN : fail => faults < MaxFaults}

\* the vocabs and fixits handed to the typed audit calls
AuditVocabs ==
  LET v == [NewVocab(kA) EXCEPT !.ID = 1, !.Created = 1] IN
  {v, [v EXCEPT !.Hint = sX], [v EXCEPT !.ID = 2]}
AuditFixits ==
  LET x == [NewFixit(Pending) EXCEPT !.ID = 1, !.Created = 1] IN
  {x, [x EXCEPT !.Status = Completed], [x EXCEPT !.ID = 2]}
Pointers(S) == {Nil} \cup {Ptr(x) : x \in S}

\* comments at the limit, over it, and short ones with the characters the
\* content test looks for
AuditCommentsChoices ==
  { Repeat("x", maxAuditCommentsLen), TooLong(maxAuditCommentsLen),
    sInjection, <<"<">>, <<"/">>, sEmpty }

\* the arguments of CreateAudit: every pair of texts under plain comments,
\* one pair under each of the other comments
CreateAuditInputs ==
  { [before |-> b, after |-> a, comments |-> sCreatedVocab]
    : b \in AuditTexts, a \in AuditAfterTexts }
  \cup { [before |-> <<>>, after |-> <<LBrace, JStr(kA), JNum(1), RBrace>>,
          comments |-> c] : c \in AuditCommentsChoices }

\* the arguments of a typed audit call: every pair of pointers under plain
\* comments, and comments over the limit with after nil or not
TypedAuditInputs(S) ==
  { [before |-> b, after |-> a, comments |-> sUpdatedVocab]
    : b \in Pointers(S), a \in Pointers(S) }
  \cup { [before |-> b, after |-> Nil, comments |-> TooLong(maxAuditCommentsLen)]
         : b \in Pointers(S) }
  \cup { [before |-> Nil, after |-> a, comments |-> TooLong(maxAuditCommentsLen)]
         : a \in Pointers(S) \ {Nil} }

CallCreateAudit ==
  /\ now < MaxAudits
  /\ \E in \in CreateAuditInputs, fail \in AuditFaultChoices :
       \E o \in CreateAudit(World, sVocab, 1, in.comments, sSys, in.before, in.after,
                            fail, now + 1) :
         Return("CreateAudit", in, o)

CallCreateVocabAudit ==
  /\ now < MaxAudits
  /\ \E in \in TypedAuditInputs(AuditVocabs), fail \in AuditFaultChoices :
       \E o \in CreateVocabAudit(World, in.comments, sSys, in.before, in.after,
                                 fail, now + 1) :
         Return("CreateVocabAudit", in, o)

CallCreateFixitAudit ==
  /\ now < MaxAudits
  /\ \E in \in TypedAuditInputs(AuditFixits), fail \in AuditFaultChoices :
       \E o \in CreateFixitAudit(World, in.comments, sSys, in.before, in.after,
                                 fail, now + 1) :
         Return("CreateFixitAudit", in, o)

NextAudit ==
  \/ CallCreateAudit
  \/ CallCreateVocabAudit
  \/ CallCreateFixitAudit

SpecAudit == Init /\ [][NextAudit]_vars

\* the before and after texts a call of the audit service supplies: its
\* arguments, or the JSON projections of the entities it was given
SuppliedJSON(op, x) ==
  IF op = "CreateAudit" THEN x
  ELSE IF x = Nil THEN <<>>
  ELSE IF op = "CreateVocabAudit" THEN VocabJSON(Deref(x))
  ELSE FixitJSON(Deref(x))

\* C10: every audit record appended by CreateAudit, CreateVocabAudit or
\* CreateFixitAudit stores the before and after texts as supplied, has the
\* empty diff when before is empty, and otherwise has as diff a result of
\* CompareJSON(before, after); a call appends at most that one record.
C10_AuditDiff ==
  [][ \/ AuditsUnchanged
      \/ /\ AppendedOne
         /\ LastAudit.Before = SuppliedJSON(ret'.op, ret'.in.before)
         /\ LastAudit.After = SuppliedJSON(ret'.op, ret'.in.after)
         /\ IF LastAudit.Before = <<>>
              THEN LastAudit.Diff = <<>>
              ELSE LastAudit.Diff \in CompareJSON(LastAudit.Before, LastAudit.After) ]_vars

\* an audit of a creation (no before, no diff) followed by an audit of an
\* update of a vocab whose diff lists a change
C10_Witness ==
  /\ Len(audits) = 2
  /\ audits[1].Before = <<>> /\ audits[1].Diff = <<>> /\ audits[1].After # <<>>
  /\ ret.op = "CreateVocabAudit"
  /\ audits[2].Before # <<>>
  /\ audits[2].Diff \notin {<<>>, <<JNull>>}

(***************************************************************************)
(* Concurrent requests to the vocab service (SpecConc).  A request is a    *)
(* process; each of its repository calls is one step, and the code between *)
(* two repository calls belongs to the step of the call before it.         *)
(***************************************************************************)
\* the vocabs of concurrent CreateVocab requests
ConcCreateInputs == {NewVocab(kA), NewVocab(kB), NewVocab(sEmpty)}

\* the vocabs of concurrent UpdateVocab requests for one id: a changed hint,
\* with the learning language of another row or none, or nothing changed
ConcUpdateInputs(id) ==
  LET stored == IF id \in DOMAIN vocabs THEN vocabs[id]
                ELSE [NewVocab(kA) EXCEPT !.ID = id]
  IN  { [stored EXCEPT !.Hint = Toggle("Hint", @), !.LearningLang = kB],
        [stored EXCEPT !.Hint = Toggle("Hint", @), !.LearningLang = sEmpty],
        [stored EXCEPT !.LearningLang = sEmpty] }

Process(op, in) ==
  [op |-> op, in |-> in, pc |-> "find", vocab |-> in, before |-> Nil,
   err |-> NoErr, failed |-> NoFail]

Spawn(op, in) ==
  /\ procs' = ((now + 1) :> Process(op, in)) @@ procs
  /\ UNCHANGED ret

\* a request returns to its caller
Finish(p, err, panic, failed) ==
  /\ procs' = [q \in DOMAIN procs \ {p} |-> procs[q]]
  /\ ret' = [op |-> procs[p].op, in |-> procs[p].in, err |-> err, panic |-> panic,
             failed |-> failed]

Reject(op, in, err) ==
  /\ ret' = [op |-> op, in |-> in, err |-> err, panic |-> FALSE, failed |-> NoFail]
  /\ UNCHANGED procs

AtStep(p, op, pc) == procs[p].op = op /\ procs[p].pc = pc

\* CreateVocab is called: validateVocab
StartCreateVocab ==
  /\ now < MaxReqs
  /\ Cardinality(DOMAIN procs) < MaxProcs
  /\ \E vocab \in ConcCreateInputs :
       IF IsErr(validateVocab(vocab))
         THEN Reject("CreateVocab", vocab, validateVocab(vocab))
         ELSE Spawn("CreateVocab", vocab)
  /\ now' = now + 1
  /\ UNCHANGED <<vocabs, vocabSeq, fixits, fixitSeq, audits, faults>>

\* CreateVocab: FindVocabByLearningLang and the existence test
CreateVocabFind ==
  \E p \in DOMAIN procs :
    /\ AtStep(p, "CreateVocab", "find")
    /\ \E fail \in AuditFaultChoices :
         LET existing == RepoFindVocabByLearningLang(World, procs[p].vocab.LearningLang, fail) IN
         /\ IF VocabExists(existing)
              THEN Finish(p, Errorf(errVocabExists, <<procs[p].vocab.LearningLang,
                                                      Deref(existing.vocab).ID>>),
                          FALSE, NoFail)
              ELSE /\ procs' = [procs EXCEPT ![p].pc = "write", ![p].failed.lookup = fail]
                   /\ UNCHANGED ret
         /\ faults' = faults + B2N(fail)
    /\ UNCHANGED <<vocabs, vocabSeq, fixits, fixitSeq, audits, now>>

\* CreateVocab: repo.CreateVocab; its error is kept in err until the audit
\* call assigns err again
CreateVocabInsert ==
  \E p \in DOMAIN procs :
    /\ AtStep(p, "CreateVocab", "write")
    /\ \E fail \in AuditFaultChoices :
         LET created == RepoCreateVocab(World, procs[p].vocab, fail, now) IN
         /\ SetWorld(created.w)
         /\ procs' = [procs EXCEPT ![p].pc = "audit", ![p].vocab = created.vocab,
                                   ![p].err = created.err,
                                   ![p].failed.write = IsErr(created.err)]
         /\ faults' = faults + B2N(IsErr(created.err))
    /\ UNCHANGED <<now, ret>>

\* CreateVocab: CreateVocabAudit and the return
CreateVocabAuditStep ==
  \E p \in DOMAIN procs :
    /\ AtStep(p, "CreateVocab", "audit")
    /\ \E fail \in AuditFaultChoices :
         \E o \in CreateVocabAudit(World, sCreatedVocab, sSys, Nil, Ptr(procs[p].vocab),
                                   fail, now) :
           /\ SetWorld(o.w)
           /\ Finish(p, o.err, o.panic, [procs[p].failed EXCEPT !.audit = o.failed.audit])
           /\ faults' = faults + B2N(o.failed.audit)
    /\ UNCHANGED now

\* UpdateVocab is called: validateVocabUpdate
StartUpdateVocab ==
  /\ now < MaxReqs
  /\ Cardinality(DOMAIN procs) < MaxProcs
  /\ \E id \in 1..(vocabSeq + 1) :
       \E updating \in ConcUpdateInputs(id) :
         IF IsErr(validateVocabUpdate(updating))
           THEN Reject("UpdateVocab", updating, validateVocabUpdate(updating))
           ELSE Spawn("UpdateVocab", updating)
  /\ now' = now + 1
  /\ UNCHANGED <<vocabs, vocabSeq, fixits, fixitSeq, audits, faults>>

\* UpdateVocab: FindVocabByID, the comparison, the clone and its assignments
UpdateVocabFind ==
  \E p \in DOMAIN procs :
    /\ AtStep(p, "UpdateVocab", "find")
    /\ \E fail \in AuditFaultChoices :
         LET updating == procs[p].in
             found == RepoFindVocabByID(World, updating.ID, fail)
             before == found.vocab
             failed == Failed(fail, FALSE, FALSE)
         IN  /\ IF IsErr(found.err) THEN Finish(p, found.err, FALSE, failed)
                ELSE IF before = Nil
                  THEN Finish(p, Errorf(errVocabExpected, <<updating.ID>>), FALSE, failed)
                ELSE IF ~VocabChanged(VocabClone(Deref(before)), updating)
                  THEN Finish(p, Errorf(errVocabNoChanges, <<Deref(before).ID>>), FALSE, failed)
                ELSE /\ procs' = [procs EXCEPT
                                    ![p].pc = "write", ![p].before = before,
                                    ![p].vocab = VocabApply(VocabClone(Deref(before)), updating)]
                     /\ UNCHANGED ret
             /\ faults' = faults + B2N(fail)
    /\ UNCHANGED <<vocabs, vocabSeq, fixits, fixitSeq, audits, now>>

\* UpdateVocab: repo.UpdateVocab
UpdateVocabSave ==
  \E p \in DOMAIN procs :
    /\ AtStep(p, "UpdateVocab", "write")
    /\ \E fail \in AuditFaultChoices :
         LET saved == RepoUpdateVocab(World, procs[p].vocab, fail) IN
         /\ SetWorld(saved.w)
         /\ IF IsErr(saved.err)
              THEN Finish(p, saved.err, FALSE, Failed(FALSE, TRUE, FALSE))
              ELSE /\ procs' = [procs EXCEPT ![p].pc = "audit"]
                   /\ UNCHANGED ret
         /\ faults' = faults + B2N(IsErr(saved.err))
    /\ UNCHANGED now

\* the audit step recording the state read before the update as the after
\* snapshot
UpdateVocabAuditStepOfBefore ==
  \E p \in DOMAIN procs :
    /\ AtStep(p, "UpdateVocab", "audit")
    /\ \E fail \in AuditFaultChoices :
         \E o \in CreateVocabAudit(World, sUpdatedVocab, sSys, procs[p].before,
                                   procs[p].before, fail, now) :
           /\ SetWorld(o.w)
           /\ Finish(p, o.err, o.panic, o.failed)
           /\ faults' = faults + B2N(o.failed.audit)
    /\ UNCHANGED now

\* UpdateVocab: CreateVocabAudit and the return
UpdateVocabAuditStep ==
  \E p \in DOMAIN procs :
    /\ AtStep(p, "UpdateVocab", "audit")
    /\ \E fail \in AuditFaultChoices :
         \E o \in CreateVocabAudit(World, sUpdatedVocab, sSys, procs[p].before,
                                   Ptr(procs[p].vocab), fail, now) :
           /\ SetWorld(o.w)
           /\ Finish(p, o.err, o.panic, o.failed)
           /\ faults' = faults + B2N(o.failed.audit)
    /\ UNCHANGED now

NextConc ==
  \/ StartCreateVocab
  \/ CreateVocabFind
  \/ CreateVocabInsert
  \/ CreateVocabAuditStep
  \/ StartUpdateVocab
  \/ UpdateVocabFind
  \/ UpdateVocabSave
  \/ UpdateVocabAuditStep

SpecConc == Init /\ [][NextConc]_vars

\* C4: under every interleaving of concurrent CreateVocab and UpdateVocab
\* requests, with the unique constraint of the table in force, no two rows
\* of the vocab table have the same learning_lang.
C4_UniqueLearningLang ==
  \A i \in DOMAIN vocabs, j \in DOMAIN vocabs :
    i # j => vocabs[i].LearningLang # vocabs[j].LearningLang

\* two CreateVocab requests of one learning_lang raced: both passed the
\* existence test, one inserted its row and the insert of the other was
\* refused by the constraint
C4_Witness ==
  \E p \in DOMAIN procs :
    /\ AtStep(p, "CreateVocab", "audit")
    /\ ~procs[p].failed.lookup
    /\ procs[p].err = Errorf(errConstraint, <<"learning_lang unique">>)
    /\ Cardinality(RowsWithLearningLang(procs[p].in.LearningLang)) = 1

(***************************************************************************)
(* The audit of a creation (Spec).                                         *)
(***************************************************************************)
\* the JSON projection of the row a create left in its table under an id
PersistedJSON(op, id) ==
  IF op = "CreateVocab"
    THEN IF id \in DOMAIN vocabs' THEN VocabJSON(vocabs'[id]) ELSE <<>>
    ELSE IF id \in DOMAIN fixits' THEN FixitJSON(fixits'[id]) ELSE <<>>

\* C11: a CreateVocab or CreateFixit that returns without error has appended
\* one audit record with before = "", diff = "", object_id = the id the
\* repository assigned to the new row, and after = the JSON serialization of
\* that row as it is stored.
C11_CreationAudit ==
  [][ (ret'.op \in {"CreateVocab", "CreateFixit"} /\ RetOK(ret'))
      => /\ AppendedOne
         /\ LastAudit.Before = <<>>
         /\ LastAudit.Diff = <<>>
         /\ ChangedRows(ret'.op) = {LastAudit.ObjectID}
         /\ LastAudit.After = PersistedJSON(ret'.op, LastAudit.ObjectID) ]_vars

(***************************************************************************)
(* The service calls together with the lookups (SpecLog).                  *)
(***************************************************************************)
\* AuditService.FindAuditByID and VocabService.FindVocabByID hand the call
\* over to the repository; ret.in keeps the id asked for and the pointer
\* returned
CallFindAuditByID ==
  /\ now < MaxCalls
  /\ \E id \in 1..(Len(audits) + 1), fail \in AuditFaultChoices :
       LET r == RepoFindAuditByID(World, id, fail) IN
       Return("FindAuditByID", [id |-> id, found |-> r.audit],
              Outcome(World, r.err, Failed(fail, FALSE, FALSE)))

CallFindVocabByID ==
  /\ now < MaxCalls
  /\ \E id \in 1..(vocabSeq + 1), fail \in AuditFaultChoices :
       LET r == RepoFindVocabByID(World, id, fail) IN
       Return("FindVocabByID", [id |-> id, found |-> r.vocab],
              Outcome(World, r.err, Failed(fail, FALSE, FALSE)))

NextLog ==
  \/ CallCreateVocab
  \/ CallUpdateVocab
  \/ CallCreateFixit
  \/ CallUpdateFixit
  \/ CallFindAuditByID
  \/ CallFindVocabByID

SpecLog == Init /\ [][NextLog]_vars

\* C12: the audit log is append-only: every record that is in the log before
\* a create, update or find call is in the log after it, at the same
\* position, with the same id and the same field values.
C12_AppendOnly ==
  [][ /\ Len(audits') >= Len(audits)
      /\ \A i \in 1..Len(audits) : audits'[i] = audits[i] ]_vars

\* the audit of a creation is still the first record, with id 1, after an
\* update appended a second one
C12_Witness ==
  /\ ret.op = "UpdateVocab" /\ RetOK(ret)
  /\ Len(audits) = 2
  /\ audits[1].ID = 1 /\ audits[1].Before = <<>>
  /\ audits[2].ID = 2 /\ audits[2].Before # <<>>

(***************************************************************************)
(* Properties of the audit service called directly (SpecAudit).            *)
(***************************************************************************)
TypedAuditOps == {"CreateVocabAudit", "CreateFixitAudit"}
errAfterRequired(op) ==
  IF op = "CreateVocabAudit" THEN errVocabAfterRequired ELSE errFixitAfterRequired
errIdMismatch(op) ==
  IF op = "CreateVocabAudit" THEN errVocabIdMismatch ELSE errFixitIdMismatch

\* C13: CreateVocabAudit and CreateFixitAudit called with after = nil return
\* 'after value for vocab is required' / 'after value for fixit is required'
\* whatever before and comments are, and append no audit record.
C13_AfterRequired ==
  [][ (ret'.op \in TypedAuditOps /\ ret'.in.after = Nil)
      => /\ ~ret'.panic
         /\ ret'.err = Errorf(errAfterRequired(ret'.op), <<>>)
         /\ AuditsUnchanged ]_vars

\* CreateFixitAudit was refused for its nil after, with a before given and
\* comments that would have been refused for their length
C13_Witness ==
  /\ ret.op = "CreateFixitAudit"
  /\ ret.in.after = Nil /\ ret.in.before # Nil
  /\ Len(ret.in.comments) > maxAuditCommentsLen
  /\ ret.err.code = errFixitAfterRequired
  /\ audits = <<>>

\* C14: CreateVocabAudit and CreateFixitAudit called with an after and with a
\* before whose id differs from after's id return the mismatch error naming
\* the before id and the after id and append no audit record; with before
\* nil or with equal ids they never return the mismatch error.
C14_IdMismatch ==
  [][ (ret'.op \in TypedAuditOps /\ ret'.in.after # Nil)
      => IF ret'.in.before # Nil /\ Deref(ret'.in.before).ID # Deref(ret'.in.after).ID
           THEN /\ ret'.err = Errorf(errIdMismatch(ret'.op),
                                     <<Deref(ret'.in.before).ID, Deref(ret'.in.after).ID>>)
                /\ AuditsUnchanged
           ELSE ret'.err.code \notin {errVocabIdMismatch, errFixitIdMismatch} ]_vars

\* a vocab audit with before id 2 and after id 1 was refused, after an audit
\* with equal ids had been written
C14_Witness ==
  /\ ret.op = "CreateVocabAudit"
  /\ ret.err = Errorf(errVocabIdMismatch, <<2, 1>>)
  /\ Len(audits) = 1
  /\ audits[1].Before # <<>>

\* comments CreateAudit refuses for what they contain: one of < > together
\* with one of " /
CommentsHaveMarkup(c) == ContainsAny(c, {"<", ">"}) /\ ContainsAny(c, {"\"", "/"})

MaxDiffs == 1       \* calls of CompareJSON in one run

kC == <<"c">>
kAB == <<"a", ".", "b">>

\* JSON texts handed to CompareJSON: flat objects, nested objects, a key that
\* contains '.', arrays, and texts that do not decode to an object (cut
\* short, empty, a number, an object followed by a stray brace)
DiffTexts ==
  { <<LBrace, RBrace>>,
    <<LBrace, JStr(kA), JNum(1), JStr(kB), JStr(sX), RBrace>>,
    <<LBrace, JStr(kA), JNum(2), JStr(kB), JStr(sX), RBrace>>,
    <<LBrace, JStr(kA), JNum(1), JStr(kB), JStr(sEmpty), RBrace>>,
    <<LBrace, JStr(kA), JNum(1), JStr(kB), JNull, RBrace>>,
    <<LBrace, JStr(kA), JNum(1), RBrace>>,
    <<LBrace, JStr(kB), JStr(sX), RBrace>>,
    <<LBrace, JStr(kA), LBrace, JStr(kB), JNum(1), RBrace, JStr(kB), JStr(sX), RBrace>>,
    <<LBrace, JStr(kA), LBrace, JStr(kB), JNum(2), RBrace, JStr(kB), JStr(sEmpty), RBrace>>,
    <<LBrace, JStr(kA), LBrace, RBrace, JStr(kB), JStr(sX), RBrace>>,
    <<LBrace, JStr(kAB), JNum(1), JStr(kA), LBrace, JStr(kB), JNum(2), RBrace, RBrace>>,
    <<LBrace, JStr(kAB), JNum(3), JStr(kA), LBrace, JStr(kB), JNum(4), RBrace, RBrace>>,
    <<LBrace, JStr(kA), LBrack, JNum(1), RBrack, RBrace>>,
    <<LBrace, JStr(kA), LBrack, JNum(2), RBrack, RBrace>>,
    <<LBrace, JStr(kC), LBrace, JStr(kB), JNum(1), RBrace, JStr(kB), JStr(sX), JStr(kA), JNum(1), RBrace>>,
    <<LBrace, JStr(kC), LBrace, JStr(kB), JNum(2), RBrace, JStr(kB), JStr(sEmpty), JStr(kA), JNum(2), RBrace>>,
    <<LBrace, JStr(kC), LBrace, RBrace, RBrace>>,
    <<LBrace, JStr(kA)>>,
    <<>>,
    <<JNum(1)>>,
    <<LBrace, JStr(kA), JNum(1), RBrace, RBrace>> }

\* one call CompareJSON(jsonStr1, jsonStr2): ret keeps the list findDiffs
\* returned and the string the call returned
CallCompareJSON ==
  /\ now < MaxDiffs
  /\ \E jsonStr1 \in DiffTexts, jsonStr2 \in DiffTexts :
       LET obj1 == Unmarshal(jsonStr1)
           obj2 == Unmarshal(jsonStr2)
           in == [before |-> jsonStr1, after |-> jsonStr2]
       IN  IF findDiffsPanics(obj1, obj2)
             THEN ret' = [op |-> "CompareJSON", in |-> in, err |-> NoErr, panic |-> TRUE,
                          failed |-> NoFail, diffs |-> <<>>, out |-> <<>>]
             ELSE \E diffs \in findDiffs(obj1, obj2) :
                    ret' = [op |-> "CompareJSON", in |-> in, err |-> NoErr, panic |-> FALSE,
                            failed |-> NoFail, diffs |-> diffs, out |-> MarshalDiffs(diffs)]
  /\ now' = now + 1
  /\ UNCHANGED <<vocabs, vocabSeq, fixits, fixitSeq, audits, faults, procs>>

NextDiff == CallCompareJSON

SpecDiff == Init /\ [][NextDiff]_vars

\* a call of CompareJSON has returned
Compared == ret.op = "CompareJSON" /\ ~ret.panic

\* C16: the list CompareJSON returns is in ascending lexicographic order of
\* the Key of its entries, for flat and for nested objects.
C16_SortedByKey ==
  Compared
    => \A i \in 1..Len(ret.diffs), j \in 1..Len(ret.diffs) :
         i < j => ~StrLess(ret.diffs[j].Key, ret.diffs[i].Key)

\* three entries, one of them of a nested object, whose keys the map need
\* not have produced in order
C16_Witness ==
  /\ Compared
  /\ Len(ret.diffs) = 3
  /\ ret.diffs[1].Key = Quote(kA)
  /\ ret.diffs[2].Key = Quote(kB)
  /\ ret.diffs[3].Key = Quote(kC \o <<".">> \o kB)

\* C17: CompareJSON is deterministic: a fixed pair of inputs has one possible
\* result, the same entries in the same order, whatever order the maps are
\* iterated in.
C17_Deterministic ==
  Compared => CompareJSON(ret.in.before, ret.in.after) = {ret.out}

\* the decoded object of a text, and whether the text decodes to an object
Decoded(text) == ParseValue(text, 1)
Decodes(text) ==
  Decoded(text).ok /\ Decoded(text).next = Len(text) + 1 /\ Decoded(text).val.t = "obj"
Scalar(val) == val.t \in {"str", "num", "null"}
IsFlat(text) == Decodes(text) /\ \A k \in DOMAIN Decoded(text).val.v : Scalar(Decoded(text).val.v[k])
Entries(diffs) == {diffs[i] : i \in 1..Len(diffs)}

\* C18: for two flat objects with the same keys and scalar values CompareJSON
\* yields exactly one entry {'k', before, after} for each key whose values
\* differ and none for a key whose values are equal; CompareJSON(A, A) is
\* empty.
C18_FlatDiff ==
  (Compared /\ IsFlat(ret.in.before) /\ IsFlat(ret.in.after))
    => LET a == Decoded(ret.in.before).val.v
           b == Decoded(ret.in.after).val.v
           differing == {k \in DOMAIN a : a[k] # b[k]}
       IN  DOMAIN a = DOMAIN b
             => /\ Entries(ret.diffs) = {DiffResult(Quote(k), a[k], b[k]) : k \in differing}
                /\ Len(ret.diffs) = Cardinality(differing)
                /\ (ret.in.before = ret.in.after => ret.diffs = <<>> /\ ret.out = <<JNull>>)

\* an empty string against null under the same key: one entry that carries
\* both values
C18_Witness ==
  /\ Compared
  /\ IsFlat(ret.in.before) /\ IsFlat(ret.in.after)
  /\ ret.diffs = <<DiffResult(Quote(kB), JStr(sEmpty), JNull)>>

\* C19: when after lacks a top-level key k of before, CompareJSON reports
\* exactly one entry for k, with Key 'k' removed and with before and after
\* both null: the list holds one entry of that Key, and it is the only entry
\* the loop appends for k.
C19_RemovedKey ==
  (Compared /\ Decodes(ret.in.before) /\ Decodes(ret.in.after))
    => LET a == Decoded(ret.in.before).val.v
           b == Decoded(ret.in.after).val.v
       IN  \A k \in DOMAIN a \ DOMAIN b :
             LET removed == Quote(k) \o <<" ", "r", "e", "m", "o", "v", "e", "d">>
                 hits == {i \in 1..Len(ret.diffs) : ret.diffs[i].Key = removed}
             IN  /\ Cardinality(hits) = 1
                 /\ \A i \in hits : ret.diffs[i].Before = JNull /\ ret.diffs[i].After = JNull
                 /\ {x \in diffEntries(a, b, <<>>, <<>>) : x.origin[1] = k}
                      = {[origin |-> <<k>>, e |-> DiffResult(removed, JNull, JNull)]}

\* after keeps a nested object and drops two keys: both are reported removed,
\* next to the entry of the nested object
C19_Witness ==
  /\ Compared
  /\ Decodes(ret.in.after) /\ Decoded(ret.in.after).val.v # EmptyMap
  /\ Len(ret.diffs) = 3
  /\ ret.diffs[1] = DiffResult(Quote(kA) \o <<" ", "r", "e", "m", "o", "v", "e", "d">>, JNull, JNull)
  /\ ret.diffs[2] = DiffResult(Quote(kB) \o <<" ", "r", "e", "m", "o", "v", "e", "d">>, JNull, JNull)

\* C20 as claimed: if either input of CompareJSON fails to decode to a JSON
\* object, the result is an empty diff list and no panic is raised.
C20_DecodeFailureEmpty ==
  (ret.op = "CompareJSON" /\ (~Decodes(ret.in.before) \/ ~Decodes(ret.in.after)))
    => ~ret.panic /\ ret.diffs = <<>>

\* C20 as amended: a decode failure raises no error and no panic; when the
\* before text fails to decode the diff list is empty (written as null);
\* when only the after text fails to decode, every top-level key of before is
\* reported as 'k' removed with no values, and nothing else is reported.
C20_DecodeFailure ==
  (ret.op = "CompareJSON" /\ (~Decodes(ret.in.before) \/ ~Decodes(ret.in.after)))
    => /\ ~ret.panic
       /\ ret.err = NoErr
       /\ IF ~Decodes(ret.in.before)
            THEN ret.diffs = <<>> /\ ret.out = <<JNull>>
            ELSE LET a == Decoded(ret.in.before).val.v IN
                 /\ Len(ret.diffs) = Cardinality(DOMAIN a)
                 /\ Entries(ret.diffs)
                      = {DiffResult(Quote(k) \o <<" ", "r", "e", "m", "o", "v", "e", "d">>, JNull, JNull)
                           : k \in DOMAIN a}

\* before is an object of three keys and after is cut short: three entries
C20_Witness ==
  /\ ret.op = "CompareJSON"
  /\ Decodes(ret.in.before) /\ ~Decodes(ret.in.after)
  /\ Len(ret.diffs) = 3
  /\ ret.out # <<JNull>>

(***************************************************************************)
(* Nested objects, keys of after alone, and values of different kinds      *)
(* (SpecDiff).                                                             *)
(***************************************************************************)
sRemovedSuffix == <<" ", "r", "e", "m", "o", "v", "e", "d">>

\* the keys under which before and after both hold an object
NestedKeys(a, b) == {p \in DOMAIN a \cap DOMAIN b : a[p].t = "obj" /\ b[p].t = "obj"}

\* C21: a key present in a nested object of before and absent from the
\* corresponding nested object of after is reported as a removal, an entry
\* with Key 'parent.key' removed and no before/after values.
C21_NestedRemoved ==
  (Compared /\ Decodes(ret.in.before) /\ Decodes(ret.in.after))
    => LET a == Decoded(ret.in.before).val.v
           b == Decoded(ret.in.after).val.v
       IN  \A p \in NestedKeys(a, b) :
             \A k \in DOMAIN a[p].v \ DOMAIN b[p].v :
               DiffResult(Quote(p \o <<".">> \o k) \o sRemovedSuffix, JNull, JNull)
                 \in Entries(ret.diffs)

\* b contains every key of a with an equal value, nested objects key by key
RECURSIVE Covers(_, _)
Covers(a, b) ==
  \A k \in DOMAIN a :
    /\ k \in DOMAIN b
    /\ IF a[k].t = "obj" /\ b[k].t = "obj" THEN Covers(a[k].v, b[k].v)
       ELSE a[k].t = b[k].t /\ a[k].v = b[k].v

\* C22: the scan is one-directional: a key present only in after, at top
\* level or inside a nested object, produces no entry, so CompareJSON(A, B)
\* returns the empty list whenever B contains every key of A with an equal
\* value.
C22_OneDirectional ==
  (ret.op = "CompareJSON" /\ Decodes(ret.in.before) /\ Decodes(ret.in.after)
     /\ Covers(Decoded(ret.in.before).val.v, Decoded(ret.in.after).val.v))
    => ~ret.panic /\ ret.diffs = <<>> /\ ret.out = <<JNull>>

\* the keys under which before and after both hold an array
ArrayKeys(a, b) == {k \in DOMAIN a \cap DOMAIN b : a[k].t = "arr" /\ b[k].t = "arr"}

\* C24: for a key present on both sides whose values are both arrays,
\* CompareJSON completes normally and reports an entry for the key exactly
\* when the arrays differ element by element.
C24_ArraysByValue ==
  (ret.op = "CompareJSON" /\ Decodes(ret.in.before) /\ Decodes(ret.in.after))
    => LET a == Decoded(ret.in.before).val.v
           b == Decoded(ret.in.after).val.v
       IN  \A k \in ArrayKeys(a, b) :
             /\ ~ret.panic
             /\ (DiffResult(Quote(k), a[k], b[k]) \in Entries(ret.diffs)) <=> (a[k].v # b[k].v)

\* the entries the loop of findDiffs appends for the top-level key k
EntriesOf(a, b, k) == {x \in diffEntries(a, b, <<>>, <<>>) : x.origin[1] = k}

\* C23 as claimed: for a key present on both sides where exactly one of the
\* two values is an object, CompareJSON neither descends into the object nor
\* reports any entry for the key.
C23_MismatchSilent ==
  (Compared /\ Decodes(ret.in.before) /\ Decodes(ret.in.after))
    => LET a == Decoded(ret.in.before).val.v
           b == Decoded(ret.in.after).val.v
       IN  \A k \in DOMAIN a \cap DOMAIN b :
             ((a[k].t = "obj") # (b[k].t = "obj"))
               => /\ EntriesOf(a, b, k) = {}
                  /\ DiffResult(Quote(k), a[k], b[k]) \notin Entries(ret.diffs)

\* C23 as amended: CompareJSON never descends into an object whose
\* counterpart is no object. With the object on the before side it reports
\* no entry for the key; with the object on the after side every list it
\* returns holds exactly one entry for the key, {'k', before value, after
\* object}.
C23_MismatchOneSided ==
  (Compared /\ Decodes(ret.in.before) /\ Decodes(ret.in.after))
    => LET a == Decoded(ret.in.before).val.v
           b == Decoded(ret.in.after).val.v
       IN  \A k \in DOMAIN a \cap DOMAIN b :
             /\ (a[k].t = "obj" /\ b[k].t # "obj")
                  => /\ EntriesOf(a, b, k) = {}
                     /\ DiffResult(Quote(k), a[k], b[k]) \notin Entries(ret.diffs)
             /\ (a[k].t # "obj" /\ b[k].t = "obj")
                  => /\ EntriesOf(a, b, k)
                          = {[origin |-> <<k>>, e |-> DiffResult(Quote(k), a[k], b[k])]}
                     /\ Cardinality({i \in 1..Len(ret.diffs) :
                                       ret.diffs[i] = DiffResult(Quote(k), a[k], b[k])}) = 1

\* a number became an object: one entry that carries the number and the
\* whole object, and none for the key inside the object
C23_Witness ==
  /\ Compared
  /\ Len(ret.diffs) = 1
  /\ ret.diffs[1].Key = Quote(kA)
  /\ ret.diffs[1].Before.t = "num"
  /\ ret.diffs[1].After.t = "obj"
  /\ DOMAIN ret.diffs[1].After.v = {kB}

(***************************************************************************)
(* An update without learning_lang (Spec).                                 *)
(***************************************************************************)
\* C25: UpdateVocab called with an incoming state whose learning_lang is
\* empty, the other fields valid and the id that of a stored record, fails
\* with 'learning lang field is required' and changes neither the stored
\* record nor the audit log.
C25_UpdateNeedsLearningLang ==
  [][ ( /\ ret'.op = "UpdateVocab"
        /\ ret'.in.LearningLang = sEmpty
        /\ ret'.in.ID \in DOMAIN vocabs
        /\ ~IsErr(validateVocabUpdate(ret'.in)) )
      => /\ ret'.err = Errorf(errLearningRequired, <<>>)
         /\ StoreUnchanged
         /\ AuditsUnchanged ]_vars

(***************************************************************************)
(* validateFieldContent called directly (SpecValidate).                    *)
(***************************************************************************)
MaxValueLen == 3    \* characters of a field value

\* a letter and the four characters validateFieldContent looks for
FieldChars == {"t", "<", ">", "\"", "/"}

\* the field values of at most n characters
RECURSIVE FieldValues(_)
FieldValues(n) ==
  IF n = 0 THEN {<<>>}
  ELSE FieldValues(n - 1)
         \cup {Append(v, c) : v \in {x \in FieldValues(n - 1) : Len(x) = n - 1}, c \in FieldChars}

\* the limits a value is checked against: one below MaxValueLen and the 50
\* of the test
FieldMaxLens == {MaxValueLen - 1, 50}

\* one call validateFieldContent(fieldValue, "username", maxLength)
CallValidateFieldContent ==
  /\ \E fieldValue \in FieldValues(MaxValueLen), maxLength \in FieldMaxLens :
       ret' = [op |-> "validateFieldContent",
               in |-> [fieldValue |-> fieldValue, fieldName |-> "username",
                       maxLength |-> maxLength],
               err |-> validateFieldContent(fieldValue, "username", maxLength),
               panic |-> FALSE, failed |-> NoFail]
  /\ UNCHANGED <<vocabs, vocabSeq, fixits, fixitSeq, audits, now, faults, procs>>

NextValidate == CallValidateFieldContent

SpecValidate == Init /\ [][NextValidate]_vars

\* C26: validateFieldContent rejects, with '<fieldName> contains invalid
\* characters', every value within the length limit that contains '<' or
\* '>', and accepts the empty string and the values without these
\* characters.
C26_AngleBracketsRejected ==
  (ret.op = "validateFieldContent" /\ Len(ret.in.fieldValue) <= ret.in.maxLength)
    => IF ContainsAny(ret.in.fieldValue, {"<", ">"})
         THEN ret.err = Errorf(errInvalidChars, <<ret.in.fieldName>>)
         ELSE ret.err = NoErr

(***************************************************************************)
(* Audit records and the entities they name (Spec).                        *)
(***************************************************************************)
\* C27: in every reachable state, also after a repository insert failed,
\* each audit record's (table_name, object_id) identifies an entity that is
\* in the corresponding table: no audit record is written for an entity that
\* was not persisted.
C27_AuditedEntityExists ==
  \A i \in 1..Len(audits) :
    IF audits[i].TableName = sVocab
      THEN audits[i].ObjectID \in DOMAIN vocabs
      ELSE audits[i].ObjectID \in DOMAIN fixits

(***************************************************************************)
(* Concurrent creations of one learning_lang (SpecConc).                   *)
(***************************************************************************)
\* C30: when two CreateVocab requests with the same learning_lang both pass
\* the existence check, the request whose insert the unique constraint
\* rejects returns an error and appends no audit record, so at most one of
\* the two returns success.
C30_LoserFails ==
  [][ \A p \in DOMAIN procs :
        ( /\ AtStep(p, "CreateVocab", "audit")
          /\ procs[p].err = Errorf(errConstraint, <<"learning_lang unique">>)
          /\ ~procs[p].failed.lookup
          /\ p \notin DOMAIN procs' )
        => /\ IsErr(ret'.err)
           /\ AuditsUnchanged ]_vars

(***************************************************************************)
(* The audit records of one entity, calls one after another (Spec).        *)
(***************************************************************************)
\* the positions in the audit log of the records of one entity, and the k-th
\* of them
AuditsOf(table, id) ==
  {i \in 1..Len(audits) : audits[i].TableName = table /\ audits[i].ObjectID = id}
NthOf(S, k) == CHOOSE i \in S : Cardinality({j \in S : j <= i}) = k

\* the keys a stored diff names: the string after "key" at the head of each
\* entry
DiffKeys(diff) ==
  {diff[i + 1].v : i \in {j \in 2..(Len(diff) - 1) :
                            diff[j - 1] = LBrace /\ diff[j] = JStr(<<"k", "e", "y">>)}}

\* the rendered keys of the fields an update may change
MutableKeys(table) ==
  IF table = sVocab
    THEN {Quote(<<"f", "i", "r", "s", "t", "_", "l", "a", "n", "g">>),
          Quote(<<"a", "l", "t", "e", "r", "n", "a", "t", "i", "v", "e", "s">>),
          Quote(<<"s", "k", "i", "l", "l">>),
          Quote(<<"i", "n", "f", "i", "n", "i", "t", "i", "v", "e">>),
          Quote(<<"p", "o", "s">>),
          Quote(<<"h", "i", "n", "t">>),
          Quote(<<"n", "u", "m", "_", "l", "e", "a", "r", "n", "i", "n", "g", "_", "w", "o", "r", "d", "s">>)}
    ELSE {Quote(<<"S", "t", "a", "t", "u", "s">>),
          Quote(<<"f", "i", "e", "l", "d", "_", "n", "a", "m", "e">>),
          Quote(<<"C", "o", "m", "m", "e", "n", "t", "s">>)}

StoredJSON(table, id) ==
  IF table = sVocab
    THEN IF id \in DOMAIN vocabs THEN VocabJSON(vocabs[id]) ELSE <<>>
    ELSE IF id \in DOMAIN fixits THEN FixitJSON(fixits[id]) ELSE <<>>

AuditChain(table, id) ==
  LET S == AuditsOf(table, id)
      n == Cardinality(S)
      rec(k) == audits[NthOf(S, k)]
  IN  n > 0
        => /\ rec(1).Before = <<>>
           /\ \A k \in 2..n :
                /\ rec(k).Before = rec(k - 1).After
                /\ rec(k).Diff \notin {<<>>, <<JNull>>}
                /\ DiffKeys(rec(k).Diff) # {}
                /\ DiffKeys(rec(k).Diff) \subseteq MutableKeys(table)
           /\ rec(n).After = StoredJSON(table, id)

\* C29: for calls executed one after another with every write succeeding,
\* the audit records of one entity form a chain: the first has before = "",
\* each later record's before equals the previous record's after, the last
\* record's after is the JSON of the stored entity, and every update
\* record's diff is non-empty and names only mutable fields.  The tables
\* and the log are empty at the start, and a call whose entity write and
\* audit write do not fail takes a log in which every stored entity has its
\* chain to such a log.
\* every record belongs to a chain and every stored entity has one
AuditChains ==
  /\ \A i \in 1..Len(audits) : AuditChain(audits[i].TableName, audits[i].ObjectID)
  /\ \A id \in DOMAIN vocabs : AuditsOf(sVocab, id) # {}
  /\ \A id \in DOMAIN fixits : AuditsOf(sFixit, id) # {}

C29_AuditChain ==
  [][ (AuditChains /\ ~ret'.failed.write /\ ~ret'.failed.audit) => AuditChains' ]_vars

\* a vocab was created and then updated with identity fields of the caller's
\* own: two records, the second taking up where the first ended
C29_Witness ==
  /\ faults = 0
  /\ ret.op = "UpdateVocab"
  /\ RetOK(ret)
  /\ ret.in.LearningLang = <<"y">>
  /\ AuditsOf(sVocab, 1) = {1, 2}
  /\ audits[2].Before = audits[1].After
  /\ audits[2].After # audits[2].Before

(***************************************************************************)
(* Concurrent updates of stored entities (SpecUpd): a vocab and a fixit    *)
(* have been created, and update requests run one repository call at a     *)
(* time, interleaved.                                                      *)
(***************************************************************************)
MaxUpdates == 2     \* update requests started in one run

\* the database after CreateVocab and CreateFixit were called, one after the
\* other, on the empty database
StoredWorld ==
  LET empty == [vocabs |-> <<>>, vocabSeq |-> 0, fixits |-> <<>>, fixitSeq |-> 0,
                audits |-> <<>>]
      first == CHOOSE o \in CreateVocab(empty, NewVocab(kA), NoFail, 0) : TRUE
      second == CHOOSE o \in CreateFixit(first.w, NewFixit(Pending), NoFail, 1) : TRUE
  IN  second.w

InitStored ==
  /\ vocabs = StoredWorld.vocabs
  /\ vocabSeq = StoredWorld.vocabSeq
  /\ fixits = StoredWorld.fixits
  /\ fixitSeq = StoredWorld.fixitSeq
  /\ audits = StoredWorld.audits
  /\ now = Len(StoredWorld.audits)
  /\ faults = 0
  /\ ret = NoRet
  /\ procs = <<>>

\* the incoming states of concurrent updates of vocab 1 and of fixit 1: the
\* stored values as the caller read them, with one mutable field changed
StoredVocabUpdates ==
  { [vocabs[1] EXCEPT !.Hint = Toggle("Hint", @)],
    [vocabs[1] EXCEPT !.Pos = Toggle("Pos", @)] }
StoredFixitUpdates ==
  { [fixits[1] EXCEPT !.Status = NextStatus(@)],
    [fixits[1] EXCEPT !.Comments = Toggle("Comments", @)] }

FixitProcess(op, in) ==
  [op |-> op, in |-> in, pc |-> "find", fixit |-> in, before |-> Nil,
   err |-> NoErr, failed |-> NoFail]

\* UpdateVocab is called on the stored vocab: validateVocabUpdate
BeginUpdateVocab ==
  /\ now < Len(StoredWorld.audits) + MaxUpdates
  /\ Cardinality(DOMAIN procs) < MaxProcs
  /\ \E updating \in StoredVocabUpdates :
       IF IsErr(validateVocabUpdate(updating))
         THEN Reject("UpdateVocab", updating, validateVocabUpdate(updating))
         ELSE Spawn("UpdateVocab", updating)
  /\ now' = now + 1
  /\ UNCHANGED <<vocabs, vocabSeq, fixits, fixitSeq, audits, faults>>

\* UpdateFixit is called on the stored fixit: validateFixit
BeginUpdateFixit ==
  /\ now < Len(StoredWorld.audits) + MaxUpdates
  /\ Cardinality(DOMAIN procs) < MaxProcs
  /\ \E updating \in StoredFixitUpdates :
       IF IsErr(validateFixit(updating))
         THEN Reject("UpdateFixit", updating, validateFixit(updating))
         ELSE /\ procs' = ((now + 1) :> FixitProcess("UpdateFixit", updating)) @@ procs
              /\ UNCHANGED ret
  /\ now' = now + 1
  /\ UNCHANGED <<vocabs, vocabSeq, fixits, fixitSeq, audits, faults>>

\* UpdateFixit: FindFixitByID, the clone, the comparison and the assignments
UpdateFixitFind ==
  \E p \in DOMAIN procs :
    /\ AtStep(p, "UpdateFixit", "find")
    /\ \E fail \in AuditFaultChoices :
         LET updating == procs[p].in
             found == RepoFindFixitByID(World, updating.ID, fail)
             before == found.fixit
             failed == Failed(fail, FALSE, FALSE)
         IN  /\ IF IsErr(found.err) THEN Finish(p, found.err, FALSE, failed)
                ELSE IF before = Nil
                  THEN Finish(p, Errorf(errFixitExpected, <<updating.ID>>), FALSE, failed)
                ELSE IF ~FixitChanged(FixitClone(Deref(before)), updating)
                  THEN Finish(p, Errorf(errFixitNoChanges, <<Deref(before).ID>>), FALSE, failed)
                ELSE /\ procs' = [procs EXCEPT
                                    ![p].pc = "write", ![p].before = before,
                                    ![p].fixit = FixitApply(FixitClone(Deref(before)), updating)]
                     /\ UNCHANGED ret
             /\ faults' = faults + B2N(fail)
    /\ UNCHANGED <<vocabs, vocabSeq, fixits, fixitSeq, audits, now>>

\* UpdateFixit: repo.UpdateFixit
UpdateFixitSave ==
  \E p \in DOMAIN procs :
    /\ AtStep(p, "UpdateFixit", "write")
    /\ \E fail \in AuditFaultChoices :
         LET saved == RepoUpdateFixit(World, procs[p].fixit, fail) IN
         /\ SetWorld(saved.w)
         /\ IF IsErr(saved.err)
              THEN Finish(p, saved.err, FALSE, Failed(FALSE, TRUE, FALSE))
              ELSE /\ procs' = [procs EXCEPT ![p].pc = "audit"]
                   /\ UNCHANGED ret
         /\ faults' = faults + B2N(IsErr(saved.err))
    /\ UNCHANGED now

\* UpdateFixit: CreateFixitAudit and the return
UpdateFixitAuditStep ==
  \E p \in DOMAIN procs :
    /\ AtStep(p, "UpdateFixit", "audit")
    /\ \E fail \in AuditFaultChoices :
         \E o \in CreateFixitAudit(World, sUpdatedFixit, sSys, procs[p].before,
                                   Ptr(procs[p].fixit), fail, now) :
           /\ SetWorld(o.w)
           /\ Finish(p, o.err, o.panic, o.failed)
           /\ faults' = faults + B2N(o.failed.audit)
    /\ UNCHANGED now

NextUpd ==
  \/ BeginUpdateVocab
  \/ UpdateVocabFind
  \/ UpdateVocabSave
  \/ UpdateVocabAuditStep
  \/ BeginUpdateFixit
  \/ UpdateFixitFind
  \/ UpdateFixitSave
  \/ UpdateFixitAuditStep

SpecUpd == InitStored /\ [][NextUpd]_vars

\* the audit records of one entity, the most recently appended one, and the
\* fields a record's diff names
LastAuditOf(table, id) == audits[CHOOSE i \in AuditsOf(table, id) : \A j \in AuditsOf(table, id) : j <= i]
ChangedKeys(rec) == {SubSeq(q, 2, Len(q) - 1) : q \in DiffKeys(rec.Diff)}
SameField(textA, textB, k) ==
  LET a == Unmarshal(textA)
      b == Unmarshal(textB)
  IN  /\ k \in DOMAIN a
      /\ k \in DOMAIN b
      /\ a[k].t = b[k].t
      /\ a[k].v = b[k].v
Entities == {<<sVocab, id>> : id \in DOMAIN vocabs} \cup {<<sFixit, id>> : id \in DOMAIN fixits}
AllFinished == procs = <<>> /\ faults = 0

\* C28 as stated: once all update requests on one id have finished without a
\* failure, the stored entity equals the after snapshot of the most recently
\* appended audit record for that id, and every field an update record
\* changed still has that record's after value in the stored entity unless
\* the diff of a later record for that id names the field.
C28_StoredIsLastRecord ==
  AllFinished =>
    \A e \in Entities :
      /\ StoredJSON(e[1], e[2]) = LastAuditOf(e[1], e[2]).After
      /\ \A i \in AuditsOf(e[1], e[2]) :
           \A k \in ChangedKeys(audits[i]) :
             \/ SameField(StoredJSON(e[1], e[2]), audits[i].After, k)
             \/ \E j \in AuditsOf(e[1], e[2]) : j > i /\ k \in ChangedKeys(audits[j])

\* the rows written by requests that have saved and not yet written their
\* audit record
SavedUnaudited(table, id) ==
  {IF table = sVocab THEN VocabJSON(procs[p].vocab) ELSE FixitJSON(procs[p].fixit) :
     p \in {q \in DOMAIN procs :
              /\ procs[q].pc = "audit"
              /\ procs[q].op = (IF table = sVocab THEN "UpdateVocab" ELSE "UpdateFixit")
              /\ procs[q].in.ID = id}}
Accounted ==
  \A e \in Entities :
    StoredJSON(e[1], e[2]) \in
      {audits[i].After : i \in AuditsOf(e[1], e[2])} \cup SavedUnaudited(e[1], e[2])

\* C28 (amended): under any interleaving of concurrent UpdateVocab or
\* UpdateFixit requests on the same id in which every write succeeds, the
\* stored entity always equals the after snapshot of one of the audit
\* records for that id or the row of a request that has saved and not yet
\* written its record; so once all requests have finished it equals the
\* after snapshot of one of the audit records for that id, which need not
\* be the most recently appended one.  The created entities start with
\* their creation records, and every step in which no write fails keeps the
\* stored entities accounted for.
C28_StoredIsSomeRecord ==
  /\ InitStored => Accounted
  /\ [][ (Accounted /\ (faults' = faults \/ ret'.failed.lookup)) => Accounted' ]_vars

\* two updates of vocab 1 have finished, and the stored vocab is the after
\* snapshot of the first update's record and not of the last record
C28_Witness ==
  /\ AllFinished
  /\ Len(audits) = 4
  /\ AuditsOf(sVocab, 1) = {1, 3, 4}
  /\ Accounted
  /\ StoredJSON(sVocab, 1) = audits[3].After
  /\ StoredJSON(sVocab, 1) # audits[4].After

====
